---- MODULE Spec2Model ----
(***************************************************************************)
(* Rule-based risk scoring and clause role tagging of the contract risk    *)
(* analysis bot: RiskScorer (backend/llm/risk_scorer.py), ClauseExtractor  *)
(* (backend/nlp/extractors/clause_extractor.py), ContractClassifier        *)
(* (backend/nlp/classifiers/contract_classifier.py), Explainer             *)
(* (backend/llm/explainer.py) and the request handler analyze_contract     *)
(* (backend/routes/analyze.py) that runs them in sequence.                 *)
(*                                                                         *)
(* A Python str is a sequence of Unicode code points.  str.lower() and the *)
(* substring test `keyword in text` are computed on these sequences, so a  *)
(* keyword matches wherever its characters occur, inside a word or across  *)
(* the seam of two concatenated pieces of text.                            *)
(***************************************************************************)
EXTENDS Integers, Sequences, FiniteSets, TLC

VARIABLES
  clause_text,      \* the clause text handed to score_clause and _classify_clause
  contract_type,    \* the contract_type argument of score_clause and score_contract
  clauses,          \* the list of clause dicts handed to score_contract (mutated in place)
  clause_result,    \* what score_clause returned
  role_result,      \* what _classify_clause returned
  contract_result,  \* what score_contract returned
  document,         \* the document text handed to ContractClassifier and ClauseExtractor.extract
  type_result,      \* what ContractClassifier.classify returned
  confidence_result,\* what ContractClassifier.get_confidence returned
  extract_result,   \* how ClauseExtractor.extract ended: the clause list, or the exception
  environment,      \* what analyze_contract finds around it: GROQ_API_KEY, the LLM,
                    \* the template files, the spaCy model, the audit log directory
  data,             \* what request.get_json() gave analyze_contract
  pc,               \* the position of analyze_contract in its body
  standard_clauses, \* the clauses of the template analyze_contract loaded
  explanations,     \* what Explainer.explain_contract returned
  audit_log,        \* the lines of the audit log file
  response,         \* the response of analyze_contract: status and body
  analyses          \* independent analyses under way, each with its own locals

clause_vars == <<clause_text, contract_type, clauses, clause_result, role_result, contract_result>>

document_vars == <<document, type_result, confidence_result, extract_result>>

request_vars == <<environment, data, pc, standard_clauses, explanations, audit_log, response>>

vars == <<clause_vars, document_vars, request_vars, analyses>>

----------------------------------------------------------------------------
\* Bounds of the model.

\* Longest clause text, in fragments of the vocabulary below.
MaxFrags == 2

\* Longest clause list enumerated exhaustively.
MaxClauses == 3

\* Length of the long clause lists (one odd clause among equal ones).
LongLen == 1001

\* Longest document handed to extract, in blocks of the vocabulary below.
MaxBlocks == 3

\* Most sections of a sectioned document.
MaxSections == 2

----------------------------------------------------------------------------
\* RiskScorer: class constants and the pattern table.

HIGH_RISK_THRESHOLD == 70

MEDIUM_RISK_THRESHOLD == 40

\* `if pattern_info['weight'] >= 25` in score_clause.
FLAG_WEIGHT == 25

\* `score = min(score, 100)` in score_clause.
SCORE_CAP == 100

\* The dict returned by _get_risk_patterns, in insertion order (the order in
\* which score_clause iterates over it).  Keywords are code-point sequences.
get_risk_patterns ==
  <<
    [name |-> "unilateral_termination", weight |-> 30,
     description |-> "One-sided termination rights (may be void per Indian Contract Act if arbitrary)",
     keywords |-> <<
        \* 'may terminate'
        <<109,97,121,32,116,101,114,109,105,110,97,116,101>>,
        \* 'right to terminate'
        <<114,105,103,104,116,32,116,111,32,116,101,114,109,105,110,97,116,101>>,
        \* 'terminate at will'
        <<116,101,114,109,105,110,97,116,101,32,97,116,32,119,105,108,108>>,
        \* 'terminate without cause'
        <<116,101,114,109,105,110,97,116,101,32,119,105,116,104,111,117,116,32,99,97,117,115,101>>,
        \* 'sole discretion'
        <<115,111,108,101,32,100,105,115,99,114,101,116,105,111,110>>
     >>],
    [name |-> "uncapped_liability", weight |-> 35,
     description |-> "Unlimited liability exposure",
     keywords |-> <<
        \* 'unlimited liability'
        <<117,110,108,105,109,105,116,101,100,32,108,105,97,98,105,108,105,116,121>>,
        \* 'no limit'
        <<110,111,32,108,105,109,105,116>>,
        \* 'without limitation'
        <<119,105,116,104,111,117,116,32,108,105,109,105,116,97,116,105,111,110>>,
        \* 'liable for all'
        <<108,105,97,98,108,101,32,102,111,114,32,97,108,108>>,
        \* 'indemnify against all'
        <<105,110,100,101,109,110,105,102,121,32,97,103,97,105,110,115,116,32,97,108,108>>
     >>],
    [name |-> "auto_renewal_lock_in", weight |-> 20,
     description |-> "Auto-renewal or Lock-in period (check if > 3 years)",
     keywords |-> <<
        \* 'automatically renew'
        <<97,117,116,111,109,97,116,105,99,97,108,108,121,32,114,101,110,101,119>>,
        \* 'auto-renewal'
        <<97,117,116,111,45,114,101,110,101,119,97,108>>,
        \* 'lock-in period'
        <<108,111,99,107,45,105,110,32,112,101,114,105,111,100>>,
        \* 'cannot terminate during'
        <<99,97,110,110,111,116,32,116,101,114,109,105,110,97,116,101,32,100,117,114,105,110,103>>
     >>],
    [name |-> "penalty_high", weight |-> 25,
     description |-> "Penalty clause (Indian courts distinguish between reasonable compensation and penalty)",
     keywords |-> <<
        \* 'penalty'
        <<112,101,110,97,108,116,121>>,
        \* 'liquidated damages'
        <<108,105,113,117,105,100,97,116,101,100,32,100,97,109,97,103,101,115>>,
        \* 'forfeit'
        <<102,111,114,102,101,105,116>>,
        \* 'pay as damages'
        <<112,97,121,32,97,115,32,100,97,109,97,103,101,115>>
     >>],
    [name |-> "non_compete_excessive", weight |-> 30,
     description |-> "Post-termination non-compete (Often void in India under Sec 27 unless reasonable)",
     keywords |-> <<
        \* 'non-compete'
        <<110,111,110,45,99,111,109,112,101,116,101>>,
        \* 'shall not compete'
        <<115,104,97,108,108,32,110,111,116,32,99,111,109,112,101,116,101>>,
        \* 'restrictive covenant'
        <<114,101,115,116,114,105,99,116,105,118,101,32,99,111,118,101,110,97,110,116>>,
        \* 'after termination'
        <<97,102,116,101,114,32,116,101,114,109,105,110,97,116,105,111,110>>
     >>],
    [name |-> "ip_transfer", weight |-> 25,
     description |-> "Intellectual property transfer",
     keywords |-> <<
        \* 'transfer of intellectual property'
        <<116,114,97,110,115,102,101,114,32,111,102,32,105,110,116,101,108,108,101,99,116,117,97,108,32,112,114,111,112,101,114,116,121>>,
        \* 'ip rights transfer'
        <<105,112,32,114,105,103,104,116,115,32,116,114,97,110,115,102,101,114>>,
        \* 'ownership of all work'
        <<111,119,110,101,114,115,104,105,112,32,111,102,32,97,108,108,32,119,111,114,107>>,
        \* 'work for hire'
        <<119,111,114,107,32,102,111,114,32,104,105,114,101>>
     >>],
    [name |-> "foreign_jurisdiction", weight |-> 40,
     description |-> "Foreign Jurisdiction (High cost/risk for Indian SME)",
     keywords |-> <<
        \* 'courts of singapore'
        <<99,111,117,114,116,115,32,111,102,32,115,105,110,103,97,112,111,114,101>>,
        \* 'courts of london'
        <<99,111,117,114,116,115,32,111,102,32,108,111,110,100,111,110>>,
        \* 'exclusive jurisdiction of'
        <<101,120,99,108,117,115,105,118,101,32,106,117,114,105,115,100,105,99,116,105,111,110,32,111,102>>,
        \* 'outside india'
        <<111,117,116,115,105,100,101,32,105,110,100,105,97>>
     >>],
    [name |-> "arbitration_cost", weight |-> 35,
     description |-> "High-cost International Arbitration",
     keywords |-> <<
        \* 'arbitration in london'
        <<97,114,98,105,116,114,97,116,105,111,110,32,105,110,32,108,111,110,100,111,110>>,
        \* 'singapore international arbitration'
        <<115,105,110,103,97,112,111,114,101,32,105,110,116,101,114,110,97,116,105,111,110,97,108,32,97,114,98,105,116,114,97,116,105,111,110>>,
        \* 'icc rules'
        <<105,99,99,32,114,117,108,101,115>>
     >>],
    [name |-> "ambiguous_terms", weight |-> 10,
     description |-> "Ambiguous or vague terms",
     keywords |-> <<
        \* 'reasonable'
        <<114,101,97,115,111,110,97,98,108,101>>,
        \* 'best efforts'
        <<98,101,115,116,32,101,102,102,111,114,116,115>>,
        \* 'as soon as possible'
        <<97,115,32,115,111,111,110,32,97,115,32,112,111,115,115,105,98,108,101>>,
        \* 'appropriate'
        <<97,112,112,114,111,112,114,105,97,116,101>>
     >>]
  >>


----------------------------------------------------------------------------
\* Python str operations on code-point sequences.

\* str.lower() of one code point: 'A'..'Z' map to 'a'..'z'; every other code
\* point of the texts used here (ASCII punctuation, digits, Devanagari) has no
\* lower-case mapping and is kept.
lower_char(c) == IF c \in 65..90 THEN c + 32 ELSE c

\* list(f): the function f on 1..n as a sequence whose elements are computed once.
list(f) == SubSeq(f, 1, Len(f))

\* text.lower()
lower(s) == list([i \in 1..Len(s) |-> lower_char(s[i])])

\* `keyword in text`: keyword occurs in text as a contiguous substring.
\* (The empty keyword occurs in every text; otherwise some position of text
\* carries the keyword's first code point and then the rest of it.)
contains(keyword, text) ==
  \/ Len(keyword) = 0
  \/ \E i \in 1..(Len(text) - Len(keyword) + 1) :
       /\ text[i] = keyword[1]
       /\ \A j \in 2..Len(keyword) : text[i + j - 1] = keyword[j]

\* any(keyword in text for keyword in keywords)
any_keyword_in(keywords, text) ==
  \E k \in 1..Len(keywords) : contains(keywords[k], text)

----------------------------------------------------------------------------
\* RiskScorer.score_clause

\* Mutant of pattern_loop: first-match, the loop ends at the first pattern
\* that fires.
RECURSIVE pattern_loop_first_match(_, _, _, _)
pattern_loop_first_match(clause_lower, k, score, flags) ==
  IF k > Len(get_risk_patterns)
  THEN [score |-> score, flags |-> flags]
  ELSE IF any_keyword_in(get_risk_patterns[k].keywords, clause_lower)
  THEN [score |-> score + get_risk_patterns[k].weight,
        flags |-> IF get_risk_patterns[k].weight >= FLAG_WEIGHT
                  THEN Append(flags, [type |-> get_risk_patterns[k].name,
                                      description |-> get_risk_patterns[k].description])
                  ELSE flags]
  ELSE pattern_loop_first_match(clause_lower, k + 1, score, flags)

\* Mutant of pattern_loop: every fired pattern is flagged, whatever its weight.
RECURSIVE pattern_loop_flag_every(_, _, _, _)
pattern_loop_flag_every(clause_lower, k, score, flags) ==
  IF k > Len(get_risk_patterns)
  THEN [score |-> score, flags |-> flags]
  ELSE IF any_keyword_in(get_risk_patterns[k].keywords, clause_lower)
  THEN pattern_loop_flag_every(clause_lower, k + 1,
                               score + get_risk_patterns[k].weight,
                               Append(flags, [type |-> get_risk_patterns[k].name,
                                              description |-> get_risk_patterns[k].description]))
  ELSE pattern_loop_flag_every(clause_lower, k + 1, score, flags)

\* The loop over risk_patterns.items(), from its k-th iteration on, entered
\* with the running score and flags; its value is the pair the loop ends with.
\* Mutant of pattern_loop: the weight of a fired pattern replaces the score
\* instead of being added to it.
RECURSIVE pattern_loop_overwrite(_, _, _, _)
pattern_loop_overwrite(clause_lower, k, score, flags) ==
  IF k > Len(get_risk_patterns) THEN [score |-> score, flags |-> flags]
  ELSE LET pattern == get_risk_patterns[k]
       IN  IF any_keyword_in(pattern.keywords, clause_lower)
           THEN pattern_loop_overwrite(clause_lower, k + 1, pattern.weight,
                  IF pattern.weight >= FLAG_WEIGHT
                  THEN Append(flags, [type |-> pattern.name, description |-> pattern.description])
                  ELSE flags)
           ELSE pattern_loop_overwrite(clause_lower, k + 1, score, flags)

RECURSIVE pattern_loop(_, _, _, _)
pattern_loop(clause_lower, k, score, flags) ==
  IF k > Len(get_risk_patterns)
  THEN [score |-> score, flags |-> flags]
  ELSE IF any_keyword_in(get_risk_patterns[k].keywords, clause_lower)
  THEN pattern_loop(clause_lower, k + 1,
                    score + get_risk_patterns[k].weight,
                    IF get_risk_patterns[k].weight >= FLAG_WEIGHT
                    THEN Append(flags, [type |-> get_risk_patterns[k].name,
                                        description |-> get_risk_patterns[k].description])
                    ELSE flags)
  ELSE pattern_loop(clause_lower, k + 1, score, flags)

\* Mutant of cap_score: the cap is left out.
cap_score_absent(score) == score

\* score = min(score, 100)
cap_score(score) == IF score < SCORE_CAP THEN score ELSE SCORE_CAP

\* Mutant of clause_level: the thresholds are compared with > instead of >=.
clause_level_strict(score) ==
  IF score > HIGH_RISK_THRESHOLD THEN "high"
  ELSE IF score > MEDIUM_RISK_THRESHOLD THEN "medium"
  ELSE "low"

\* Mutant of clause_level: 'high' is tested against MEDIUM_RISK_THRESHOLD.
clause_level_from_medium(score) ==
  IF score >= MEDIUM_RISK_THRESHOLD THEN "high"
  ELSE IF score >= MEDIUM_RISK_THRESHOLD THEN "medium"
  ELSE "low"

\* The level chain of score_clause.
clause_level(score) ==
  IF score >= HIGH_RISK_THRESHOLD THEN "high"
  ELSE IF score >= MEDIUM_RISK_THRESHOLD THEN "medium"
  ELSE "low"

score_clause(text, ctype) ==
  LET clause_lower == lower(text)
      scanned == pattern_loop(clause_lower, 1, 0, <<>>)
      score == cap_score(scanned.score)
  IN  [score |-> score, level |-> clause_level(score), flags |-> scanned.flags]

----------------------------------------------------------------------------
\* RiskScorer.score_contract

\* sum(xs[lo..hi]) of a list of integers.
RECURSIVE sum_range(_, _, _)
sum_range(xs, lo, hi) ==
  IF lo > hi THEN 0
  ELSE IF lo = hi THEN xs[lo]
  ELSE LET mid == (lo + hi) \div 2
       IN  sum_range(xs, lo, mid) + sum_range(xs, mid + 1, hi)

\* The concatenation xss[lo] + ... + xss[hi] of a list of lists.
RECURSIVE concat_range(_, _, _)
concat_range(xss, lo, hi) ==
  IF lo > hi THEN <<>>
  ELSE IF lo = hi THEN xss[lo]
  ELSE LET mid == (lo + hi) \div 2
       IN  concat_range(xss, lo, mid) \o concat_range(xss, mid + 1, hi)

RECURSIVE gcd(_, _)
gcd(a, b) == IF b = 0 THEN a ELSE gcd(b, a % b)

\* Mutant of round_2: the quotient is cut off after two decimals.
round_2_truncate(total, n) == {(100 * total) \div n}

\* round(total / n, 2) for integers total >= 0 and n > 0, in hundredths: the
\* set of values the float computation can return.  total / n is the double
\* nearest to the quotient and round() rounds that double's exact value to the
\* nearest hundredth, ties to even.  A quotient that is no tie is rounded as
\* the exact quotient is (the double is closer to it than to any tie).  A tie
\* j/200 (j odd) is a double only when the reduced denominator of total/n is 8
\* (then ties-to-even decides); for any other tie the double lies just above
\* or just below it, and either neighbour can be the result.
round_2(total, n) ==
  LET q == (100 * total) \div n
      r == (100 * total) % n
      d == n \div gcd(total, n)
  IN  IF 2 * r < n THEN {q}
      ELSE IF 2 * r > n THEN {q + 1}
      ELSE IF d = 8 THEN {IF q % 2 = 0 THEN q ELSE q + 1}
      ELSE {q, q + 1}

\* The level chain of score_contract, applied to composite_score = total / n
\* before it is rounded (total / n >= T  iff  total >= T * n, T an integer);
\* composite_score = 0 for the empty list.
contract_level(total, n) ==
  IF n = 0
  THEN (IF 0 >= HIGH_RISK_THRESHOLD THEN "high"
        ELSE IF 0 >= MEDIUM_RISK_THRESHOLD THEN "medium" ELSE "low")
  ELSE IF total >= HIGH_RISK_THRESHOLD * n THEN "high"
  ELSE IF total >= MEDIUM_RISK_THRESHOLD * n THEN "medium"
  ELSE "low"

\* Mutant of set_risk: a risk_score or risk_level the clause already carries is
\* kept (dict.setdefault).
set_risk_keep(clause, score, level) ==
  [k \in DOMAIN clause \cup {"risk_score", "risk_level"} |->
     IF k \in DOMAIN clause THEN clause[k]
     ELSE IF k = "risk_score" THEN score
     ELSE level]

\* Mutant of set_risk: the clause is replaced by a new dict of its text and
\* the two risk fields.
set_risk_fresh(clause, score, level) ==
  [text |-> clause.text, risk_score |-> score, risk_level |-> level]

\* clause['risk_score'] = score; clause['risk_level'] = level
set_risk(clause, score, level) ==
  [k \in DOMAIN clause \cup {"risk_score", "risk_level"} |->
     IF k = "risk_score" THEN score
     ELSE IF k = "risk_level" THEN level
     ELSE clause[k]]

\* c.get('risk_level') == 'high'
has_high_level(c) == "risk_level" \in DOMAIN c /\ c["risk_level"] = "high"

\* Mutant of collected_flags: the flags of every clause are collected.
collected_flags_any_level(risk_result) == risk_result.flags

\* if risk_result['level'] == 'high': risk_flags.extend(risk_result['flags'])
collected_flags(risk_result) ==
  IF risk_result.level = "high" THEN risk_result.flags ELSE <<>>

\* self.clause_weights, set by __init__ and read nowhere; in tenths.
clause_weights ==
  [prohibition |-> 12, obligation |-> 10, condition |-> 8, right |-> 6,
   definition |-> 3, general |-> 5]

\* Mutant of risk_results: the score of a clause is multiplied by the weight
\* of the clause's type.
risk_results_weighted(ctype, cl) ==
  list([i \in 1..Len(cl) |->
          [score |-> cap_score((score_clause(cl[i].text, ctype).score
                                  * clause_weights[cl[i].type]) \div 10),
           level |-> clause_level(cap_score((score_clause(cl[i].text, ctype).score
                                               * clause_weights[cl[i].type]) \div 10)),
           flags |-> score_clause(cl[i].text, ctype).flags]])

\* risk_result of every iteration of the loop over clauses.
risk_results(ctype, cl) == list([i \in 1..Len(cl) |-> score_clause(cl[i].text, ctype)])

\* What score_contract does with these risk_results: the clause list as it
\* leaves it and the dict it returns, one outcome for every value round() can
\* give; composite_score is in hundredths.
contract_outcomes(cl, risk_result) ==
  LET n == Len(cl)
      scored == list([i \in 1..n |->
                        set_risk(cl[i], risk_result[i].score, risk_result[i].level)])
      clause_scores == list([i \in 1..n |-> risk_result[i].score])
      risk_flags == concat_range(list([i \in 1..n |-> collected_flags(risk_result[i])]), 1, n)
      total == sum_range(clause_scores, 1, n)
      composite == IF n > 0 THEN round_2(total, n) ELSE {0}
      high_risk_clauses == Cardinality({i \in 1..n : has_high_level(scored[i])})
  IN  {[clauses |-> scored,
        result |-> [composite_score |-> c,
                    risk_level |-> contract_level(total, n),
                    flags |-> risk_flags,
                    clause_count |-> n,
                    high_risk_clauses |-> high_risk_clauses]]
       : c \in composite}

score_contract(ctype, cl) ==
  UNION {contract_outcomes(cl, risk_result) : risk_result \in {risk_results(ctype, cl)}}

\* score_contract step by step, on the locals of one call: clause is the
\* index of the next clause of the loop.

\* Lines 36-37 and the start of the loop.
score_contract_entry(ctype, cl) ==
  [contract_type |-> ctype, clauses |-> cl, clause |-> 1,
   clause_scores |-> <<>>, risk_flags |-> <<>>]

\* Lines 41-48: one iteration of the loop over the clauses.
score_contract_iteration(locals) ==
  LET risk_result == score_clause(locals.clauses[locals.clause].text, locals.contract_type)
  IN  [locals EXCEPT
         !.clauses[locals.clause] = set_risk(@, risk_result.score, risk_result.level),
         !.clause_scores = Append(@, risk_result.score),
         !.risk_flags = @ \o collected_flags(risk_result),
         !.clause = @ + 1]

\* Lines 50-70: the dicts score_contract can return after the loop.
score_contract_return(locals) ==
  LET n == Len(locals.clause_scores)
      total == sum_range(locals.clause_scores, 1, n)
  IN  {[composite_score |-> c,
        risk_level |-> contract_level(total, n),
        flags |-> locals.risk_flags,
        clause_count |-> Len(locals.clauses),
        high_risk_clauses |->
          Cardinality({i \in DOMAIN locals.clauses : has_high_level(locals.clauses[i])})]
       : c \in IF n > 0 THEN round_2(total, n) ELSE {0}}

\* Mutant of own_locals: risk_flags is one list shared by all calls.
shared_risk_flags(all, p, locals) ==
  [q \in DOMAIN all |->
     IF q = p THEN locals
     ELSE IF "risk_flags" \in DOMAIN all[q] /\ "risk_flags" \in DOMAIN locals
          THEN [all[q] EXCEPT !.risk_flags = locals.risk_flags]
     ELSE all[q]]

\* The locals of all analyses after analysis p has made a step: every call
\* has its own objects and its own locals.
own_locals(all, p, locals) == [all EXCEPT ![p] = locals]

----------------------------------------------------------------------------
\* ClauseExtractor: keyword lists set by __init__, and _classify_clause.

obligation_keywords ==
  <<
    \* 'shall'
    <<115,104,97,108,108>>,
    \* 'must'
    <<109,117,115,116>>,
    \* 'required to'
    <<114,101,113,117,105,114,101,100,32,116,111>>,
    \* 'obligated to'
    <<111,98,108,105,103,97,116,101,100,32,116,111>>,
    \* 'agrees to'
    <<97,103,114,101,101,115,32,116,111>>,
    \* करना होगा
    <<2325,2352,2344,2366,32,2361,2379,2327,2366>>,
    \* बाध्य है
    <<2348,2366,2343,2381,2351,32,2361,2376>>,
    \* अनिवार्य
    <<2309,2344,2367,2357,2366,2352,2381,2351>>,
    \* जिम्मेदारी
    <<2332,2367,2350,2381,2350,2375,2342,2366,2352,2368>>
  >>

right_keywords ==
  <<
    \* 'may'
    <<109,97,121>>,
    \* 'entitled to'
    <<101,110,116,105,116,108,101,100,32,116,111>>,
    \* 'has the right'
    <<104,97,115,32,116,104,101,32,114,105,103,104,116>>,
    \* 'can'
    <<99,97,110>>,
    \* 'permitted to'
    <<112,101,114,109,105,116,116,101,100,32,116,111>>,
    \* अधिकार है
    <<2309,2343,2367,2325,2366,2352,32,2361,2376>>,
    \* सकता है
    <<2360,2325,2340,2366,32,2361,2376>>,
    \* अनुमति
    <<2309,2344,2369,2350,2340,2367>>,
    \* स्वतंत्र है
    <<2360,2381,2357,2340,2306,2340,2381,2352,32,2361,2376>>
  >>

prohibition_keywords ==
  <<
    \* 'shall not'
    <<115,104,97,108,108,32,110,111,116>>,
    \* 'must not'
    <<109,117,115,116,32,110,111,116>>,
    \* 'prohibited from'
    <<112,114,111,104,105,98,105,116,101,100,32,102,114,111,109>>,
    \* 'may not'
    <<109,97,121,32,110,111,116>>,
    \* 'forbidden to'
    <<102,111,114,98,105,100,100,101,110,32,116,111>>,
    \* नहीं करेगा
    <<2344,2361,2368,2306,32,2325,2352,2375,2327,2366>>,
    \* वर्जित
    <<2357,2352,2381,2332,2367,2340>>,
    \* निषेध
    <<2344,2367,2359,2375,2343>>,
    \* प्रतिबंधित
    <<2346,2381,2352,2340,2367,2348,2306,2343,2367,2340>>,
    \* मना है
    <<2350,2344,2366,32,2361,2376>>
  >>

condition_keywords ==
  <<
    \* 'if'
    <<105,102>>,
    \* 'provided that'
    <<112,114,111,118,105,100,101,100,32,116,104,97,116>>,
    \* 'subject to'
    <<115,117,98,106,101,99,116,32,116,111>>,
    \* 'in the event'
    <<105,110,32,116,104,101,32,101,118,101,110,116>>,
    \* यदि
    <<2351,2342,2367>>,
    \* बशर्ते
    <<2348,2358,2352,2381,2340,2375>>,
    \* की स्थिति में
    <<2325,2368,32,2360,2381,2341,2367,2340,2367,32,2350,2375,2306>>,
    \* अधीन
    <<2309,2343,2368,2344>>
  >>

definition_keywords ==
  <<
    \* 'means'
    <<109,101,97,110,115>>,
    \* 'refers to'
    <<114,101,102,101,114,115,32,116,111>>,
    \* 'defined as'
    <<100,101,102,105,110,101,100,32,97,115>>,
    \* 'definition'
    <<100,101,102,105,110,105,116,105,111,110>>,
    \* का अर्थ
    <<2325,2366,32,2309,2352,2381,2341>>,
    \* तत्पर्य
    <<2340,2340,2381,2346,2352,2381,2351>>,
    \* परिभाषा
    <<2346,2352,2367,2349,2366,2359,2366>>
  >>


\* Mutant of classify_clause: obligations are checked before prohibitions.
classify_clause_obligation_first(text) ==
  LET text_lower == lower(text)
  IN  IF any_keyword_in(obligation_keywords, text_lower) THEN "obligation"
      ELSE IF any_keyword_in(prohibition_keywords, text_lower) THEN "prohibition"
      ELSE IF any_keyword_in(right_keywords, text_lower) THEN "right"
      ELSE IF any_keyword_in(condition_keywords, text_lower) THEN "condition"
      ELSE IF any_keyword_in(definition_keywords, text_lower) THEN "definition"
      ELSE "general"

\* _classify_clause: the first loop or test that finds a keyword returns.
classify_clause(text) ==
  LET text_lower == lower(text)
  IN  IF any_keyword_in(prohibition_keywords, text_lower) THEN "prohibition"
      ELSE IF any_keyword_in(obligation_keywords, text_lower) THEN "obligation"
      ELSE IF any_keyword_in(right_keywords, text_lower) THEN "right"
      ELSE IF any_keyword_in(condition_keywords, text_lower) THEN "condition"
      ELSE IF any_keyword_in(definition_keywords, text_lower) THEN "definition"
      ELSE "general"

----------------------------------------------------------------------------
\* ClauseExtractor.extract (backend/nlp/extractors/clause_extractor.py).
\* The two regular expressions are matched as Python's re matches them, on
\* texts over the Basic Latin and Devanagari blocks.

\* str.isspace() of one code point, which is also what \s matches.
is_space(c) == c \in 9..13 \/ c \in 28..32

\* str.isdigit() of one code point, which is also what \d matches: the ASCII
\* and the Devanagari digits.
is_digit(c) == c \in 48..57 \/ c \in 2406..2415

\* (?i)[a-z]
is_letter(c) == c \in 65..90 \/ c \in 97..122

\* (?i)[a-z0-9\s\(\)\-\,]
is_title_char(c) ==
  is_letter(c) \/ c \in 48..57 \/ is_space(c) \/ c \in {40, 41, 45, 44}

\* A group that took no part in the match, and the sections it yields.
None == <<-1>>

\* The index after the longest run of whitespace that starts at index i.
RECURSIVE space_run_end(_, _)
space_run_end(text, i) ==
  IF i <= Len(text) /\ is_space(text[i]) THEN space_run_end(text, i + 1) ELSE i

\* The index before the longest run of whitespace that ends at index i.
RECURSIVE space_run_start(_, _)
space_run_start(text, i) ==
  IF i >= 1 /\ is_space(text[i]) THEN space_run_start(text, i - 1) ELSE i

\* \d+ : the index after the longest run of digits that starts at index i.
RECURSIVE digit_run_end(_, _)
digit_run_end(text, i) ==
  IF i <= Len(text) /\ is_digit(text[i]) THEN digit_run_end(text, i + 1) ELSE i

\* [a-z0-9\s\(\)\-\,]+ : the index after the longest run that starts at index i.
RECURSIVE title_run_end(_, _)
title_run_end(text, i) ==
  IF i <= Len(text) /\ is_title_char(text[i]) THEN title_run_end(text, i + 1) ELSE i

\* The last index in lo..hi that carries '\n', 0 when there is none.
RECURSIVE last_newline(_, _, _)
last_newline(text, lo, hi) ==
  IF hi < lo THEN 0
  ELSE IF text[hi] = 10 THEN hi
  ELSE last_newline(text, lo, hi - 1)

\* The first index from i on that carries '\n', 0 when there is none.
RECURSIVE next_newline(_, _)
next_newline(text, i) ==
  IF i > Len(text) THEN 0
  ELSE IF text[i] = 10 THEN i
  ELSE next_newline(text, i + 1)

\* str.strip(): without the leading and the trailing whitespace.
strip(s) == SubSeq(s, space_run_end(s, 1), space_run_start(s, Len(s)))

\* text.replace('\r\n', '\n') on the indices lo..hi of text: a '\r' that a
\* '\n' follows is dropped.
RECURSIVE replace_crlf(_, _, _)
replace_crlf(text, lo, hi) ==
  IF lo > hi THEN <<>>
  ELSE IF lo = hi
       THEN IF text[lo] = 13 /\ lo < Len(text) /\ text[lo + 1] = 10 THEN <<>> ELSE <<text[lo]>>
  ELSE LET mid == (lo + hi) \div 2
       IN  replace_crlf(text, lo, mid) \o replace_crlf(text, mid + 1, hi)

\* No match of the pattern at the tried position.
NoMatch == [matched |-> FALSE]

\* (\.\d+)* from index i: the index after the last repetition, and the text
\* of the last repetition (group 2; `group` when there is none).
RECURSIVE dotted_numbers(_, _, _)
dotted_numbers(text, i, group) ==
  IF i < Len(text) /\ text[i] = 46 /\ is_digit(text[i + 1])
  THEN dotted_numbers(text, digit_run_end(text, i + 1),
                      SubSeq(text, i, digit_run_end(text, i + 1) - 1))
  ELSE [end |-> i, group |-> group]

\* The first alternative, \d+(\.\d+)*\.?\s+[a-z][a-z0-9\s\(\)\-\,]+ and the
\* closing \n, tried at index p.  Every greedy piece but the last has to take
\* its longest run (a shorter run leaves a character the next piece cannot
\* take); the last piece gives back characters until a '\n' follows it, so the
\* match closes on the last '\n' of the title run.
numbered_header(text, p) ==
  LET d == digit_run_end(text, p)
      n == dotted_numbers(text, d, None)
      q == IF n.end <= Len(text) /\ text[n.end] = 46 THEN n.end + 1 ELSE n.end
      s == space_run_end(text, q)
      f == last_newline(text, s + 2, title_run_end(text, s + 1) - 1)
  IN  IF d > p /\ s > q /\ s <= Len(text) /\ is_letter(text[s]) /\ f > 0
      THEN [matched |-> TRUE, first |-> p - 1, last |-> f,
            header |-> SubSeq(text, p, f - 1), number |-> n.group]
      ELSE NoMatch

\* The second alternative, article\s+\d+ and the closing \n, tried at index p.
article_header(text, p) ==
  LET s == space_run_end(text, p + 7)
      d == digit_run_end(text, s)
  IN  IF /\ p + 6 <= Len(text)
         /\ lower(SubSeq(text, p, p + 6)) = <<97, 114, 116, 105, 99, 108, 101>>
         /\ s > p + 7 /\ d > s /\ d <= Len(text) /\ text[d] = 10
      THEN [matched |-> TRUE, first |-> p - 1, last |-> d,
            header |-> SubSeq(text, p, d - 1), number |-> None]
      ELSE NoMatch

\* self.clause_header_pattern tried at index nl, which carries '\n'.
match_header(text, nl) ==
  IF numbered_header(text, nl + 1).matched THEN numbered_header(text, nl + 1)
  ELSE article_header(text, nl + 1)

\* The leftmost match of the header pattern that starts at index i or later.
RECURSIVE search_header(_, _)
search_header(text, i) ==
  LET nl == next_newline(text, i)
  IN  IF nl = 0 THEN NoMatch
      ELSE IF match_header(text, nl).matched THEN match_header(text, nl)
      ELSE search_header(text, nl + 1)

\* re.split(self.clause_header_pattern, text): the text before each match, then
\* the two groups of the match, and at last the text after the last match.
RECURSIVE split_headers(_, _, _)
split_headers(text, from, sections) ==
  IF search_header(text, from).matched
  THEN \* one evaluation of the search per step
       LET next(m) == split_headers(text, m.last + 1,
                        sections \o <<SubSeq(text, from, m.first - 1), m.header, m.number>>)
       IN  CHOOSE r \in {next(m) : m \in {search_header(text, from)}} : TRUE
  ELSE Append(sections, SubSeq(text, from, Len(text)))

\* re.split(r'\n\s*\n', text): a match starts at a '\n' and ends at the last
\* '\n' of the whitespace run that follows it.  `from` is where the current
\* piece starts, `search` where the next match is looked for.
RECURSIVE split_paragraphs(_, _, _, _)
split_paragraphs(text, from, search, paragraphs) ==
  LET nl == next_newline(text, search)
      f == last_newline(text, nl + 1, space_run_end(text, nl + 1) - 1)
  IN  IF nl = 0 THEN Append(paragraphs, SubSeq(text, from, Len(text)))
      ELSE IF f > 0
           THEN split_paragraphs(text, f + 1, f + 1,
                                 Append(paragraphs, SubSeq(text, from, nl - 1)))
      ELSE split_paragraphs(text, from, nl + 1, paragraphs)

\* How a call ended.
Returned(value) == [returned |-> value]

Raised(exception) == [raised |-> exception]

\* "General"
General == <<71, 101, 110, 101, 114, 97, 108>>

\* part.lower().startswith('article')
starts_with_article(part) ==
  /\ Len(part) >= 7
  /\ lower(SubSeq(part, 1, 7)) = <<97, 114, 116, 105, 99, 108, 101>>

\* Line 76: the stripped part is taken for a header.
is_header(part) ==
  Len(part) < 100 /\ (is_digit(part[1]) \/ starts_with_article(part))

\* Line 78: the stripped part is taken for content.
is_content(part) == Len(part) > 20

\* f"{current_header}\n{part}"
header_and_part(current_header, part) == current_header \o <<10>> \o part

\* The loop of _process_numbered_sections from section i on.  The stripped
\* part is indexed at 0 before its length is looked at: a part of whitespace
\* only raises IndexError.
RECURSIVE sections_loop(_, _, _, _)
sections_loop(sections, i, current_header, cl) ==
  IF i > Len(sections) THEN Returned(cl)
  ELSE IF sections[i] = None \/ sections[i] = <<>>
       THEN sections_loop(sections, i + 1, current_header, cl)
  ELSE LET part == strip(sections[i])
       IN  IF Len(part) = 0 THEN Raised("IndexError")
           ELSE IF is_header(part)
                THEN sections_loop(sections, i + 1, part, cl)
           ELSE IF is_content(part)
                THEN sections_loop(sections, i + 1, current_header,
                       Append(cl, [header |-> current_header, text |-> part,
                                        full_text |-> header_and_part(current_header, part)]))
           ELSE sections_loop(sections, i + 1, current_header, cl)

\* ClauseExtractor._process_numbered_sections
process_numbered_sections(sections) == sections_loop(sections, 1, General, <<>>)

\* Mutant of paragraph_kept: a paragraph of 20 characters is kept.
paragraph_kept_from_20(para) == Len(para) >= 20

\* Line 95: the stripped paragraph becomes a clause.
paragraph_kept(para) == Len(para) > 20

\* Mutant of paragraph_header: the first 50 characters without the marker.
paragraph_header_unmarked(para) ==
  IF Len(para) > 50 THEN SubSeq(para, 1, 50) ELSE para

\* para[:50] + '...' if len(para) > 50 else para
paragraph_header(para) ==
  IF Len(para) > 50 THEN SubSeq(para, 1, 50) \o <<46, 46, 46>> ELSE para

\* The loop of _process_paragraphs from paragraph i on.
RECURSIVE paragraphs_loop(_, _, _)
paragraphs_loop(paragraphs, i, cl) ==
  IF i > Len(paragraphs) THEN cl
  ELSE LET para == strip(paragraphs[i])
       IN  IF paragraph_kept(para)
           THEN paragraphs_loop(paragraphs, i + 1,
                  Append(cl, [header |-> paragraph_header(para), text |-> para,
                                   full_text |-> para]))
           ELSE paragraphs_loop(paragraphs, i + 1, cl)

\* ClauseExtractor._process_paragraphs
process_paragraphs(text) ==
  paragraphs_loop(split_paragraphs(text, 1, 1, <<>>), 1, <<>>)

\* Mutant of clause_id: the id carries the index of enumerate.
clause_id_from_0(i) == "clause_" \o ToString(i)

\* f"clause_{i+1}", i the index of enumerate
clause_id(i) == "clause_" \o ToString(i + 1)

\* len(text.split()): the number of runs of characters that are not whitespace.
word_count(text) ==
  Cardinality({i \in 1..Len(text) :
                 ~is_space(text[i]) /\ (i = 1 \/ is_space(text[i - 1]))})

\* Lines 56-59: id, type and word_count are set on every clause.
classify_each(cl) ==
  list([k \in 1..Len(cl) |->
          [header |-> cl[k].header, text |-> cl[k].text,
           full_text |-> cl[k].full_text, id |-> clause_id(k - 1),
           type |-> classify_clause(cl[k].text),
           word_count |-> word_count(cl[k].text)]])

\* Lines 42-49: the clauses of the numbered sections; none when the split
\* found no header.
numbered_clauses(text) ==
  LET result(sections) ==
        IF Len(sections) > 2 THEN process_numbered_sections(sections) ELSE Returned(<<>>)
  IN  CHOOSE r \in {result(sections) : sections \in {split_headers(text, 1, <<>>)}} : TRUE

\* Mutant of few_clauses: the paragraphs are tried only when the numbered
\* sections gave nothing.
few_clauses_none(cl) == Len(cl) < 1

\* Line 52: too few clauses were found.
few_clauses(cl) == Len(cl) < 2

\* ClauseExtractor.extract: the clause list, or the exception that ends the call.
extract(document_text) ==
  LET result(text, numbered) ==
        IF "raised" \in DOMAIN numbered THEN numbered
        ELSE IF few_clauses(numbered.returned)
             THEN Returned(classify_each(process_paragraphs(text)))
        ELSE Returned(classify_each(numbered.returned))
      call(text) == CHOOSE r \in {result(text, numbered) : numbered \in {numbered_clauses(text)}} : TRUE
  IN  CHOOSE r \in {call(text) : text \in {replace_crlf(document_text, 1, Len(document_text))}} : TRUE

----------------------------------------------------------------------------
\* ContractClassifier (backend/nlp/classifiers/contract_classifier.py)

\* self.type_keywords, in the insertion order of the dict
type_keywords ==
  <<
    [contract_type |-> "employment",
     keywords |-> <<
        \* 'employment'
        <<101,109,112,108,111,121,109,101,110,116>>,
        \* 'employee'
        <<101,109,112,108,111,121,101,101>>,
        \* 'employer'
        <<101,109,112,108,111,121,101,114>>,
        \* 'salary'
        <<115,97,108,97,114,121>>,
        \* 'wages'
        <<119,97,103,101,115>>,
        \* 'job title'
        <<106,111,98,32,116,105,116,108,101>>,
        \* 'position'
        <<112,111,115,105,116,105,111,110>>,
        \* 'employment agreement'
        <<101,109,112,108,111,121,109,101,110,116,32,97,103,114,101,101,109,101,110,116>>,
        \* 'work hours'
        <<119,111,114,107,32,104,111,117,114,115>>,
        \* 'leave'
        <<108,101,97,118,101>>,
        \* 'resignation'
        <<114,101,115,105,103,110,97,116,105,111,110>>,
        \* 'termination of employment'
        <<116,101,114,109,105,110,97,116,105,111,110,32,111,102,32,101,109,112,108,111,121,109,101,110,116>>
     >>],
    [contract_type |-> "vendor",
     keywords |-> <<
        \* 'vendor'
        <<118,101,110,100,111,114>>,
        \* 'supplier'
        <<115,117,112,112,108,105,101,114>>,
        \* 'purchase'
        <<112,117,114,99,104,97,115,101>>,
        \* 'procurement'
        <<112,114,111,99,117,114,101,109,101,110,116>>,
        \* 'delivery'
        <<100,101,108,105,118,101,114,121>>,
        \* 'goods'
        <<103,111,111,100,115>>,
        \* 'services'
        <<115,101,114,118,105,99,101,115>>,
        \* 'purchase order'
        <<112,117,114,99,104,97,115,101,32,111,114,100,101,114>>,
        \* 'vendor agreement'
        <<118,101,110,100,111,114,32,97,103,114,101,101,109,101,110,116>>,
        \* 'supply'
        <<115,117,112,112,108,121>>,
        \* 'shipment'
        <<115,104,105,112,109,101,110,116>>
     >>],
    [contract_type |-> "lease",
     keywords |-> <<
        \* 'lease'
        <<108,101,97,115,101>>,
        \* 'rent'
        <<114,101,110,116>>,
        \* 'tenant'
        <<116,101,110,97,110,116>>,
        \* 'landlord'
        <<108,97,110,100,108,111,114,100>>,
        \* 'premises'
        <<112,114,101,109,105,115,101,115>>,
        \* 'property'
        <<112,114,111,112,101,114,116,121>>,
        \* 'rental'
        <<114,101,110,116,97,108>>,
        \* 'lease agreement'
        <<108,101,97,115,101,32,97,103,114,101,101,109,101,110,116>>,
        \* 'lease term'
        <<108,101,97,115,101,32,116,101,114,109>>,
        \* 'security deposit'
        <<115,101,99,117,114,105,116,121,32,100,101,112,111,115,105,116>>,
        \* 'maintenance'
        <<109,97,105,110,116,101,110,97,110,99,101>>,
        \* 'lease renewal'
        <<108,101,97,115,101,32,114,101,110,101,119,97,108>>
     >>],
    [contract_type |-> "partnership",
     keywords |-> <<
        \* 'partnership'
        <<112,97,114,116,110,101,114,115,104,105,112>>,
        \* 'partners'
        <<112,97,114,116,110,101,114,115>>,
        \* 'profit sharing'
        <<112,114,111,102,105,116,32,115,104,97,114,105,110,103>>,
        \* 'capital contribution'
        <<99,97,112,105,116,97,108,32,99,111,110,116,114,105,98,117,116,105,111,110>>,
        \* 'partnership agreement'
        <<112,97,114,116,110,101,114,115,104,105,112,32,97,103,114,101,101,109,101,110,116>>,
        \* 'joint venture'
        <<106,111,105,110,116,32,118,101,110,116,117,114,101>>,
        \* 'partnership deed'
        <<112,97,114,116,110,101,114,115,104,105,112,32,100,101,101,100>>,
        \* 'profit and loss'
        <<112,114,111,102,105,116,32,97,110,100,32,108,111,115,115>>,
        \* 'partnership business'
        <<112,97,114,116,110,101,114,115,104,105,112,32,98,117,115,105,110,101,115,115>>
     >>],
    [contract_type |-> "service",
     keywords |-> <<
        \* 'service agreement'
        <<115,101,114,118,105,99,101,32,97,103,114,101,101,109,101,110,116>>,
        \* 'professional services'
        <<112,114,111,102,101,115,115,105,111,110,97,108,32,115,101,114,118,105,99,101,115>>,
        \* 'consulting'
        <<99,111,110,115,117,108,116,105,110,103>>,
        \* 'contractor'
        <<99,111,110,116,114,97,99,116,111,114>>,
        \* 'independent contractor'
        <<105,110,100,101,112,101,110,100,101,110,116,32,99,111,110,116,114,97,99,116,111,114>>,
        \* 'scope of work'
        <<115,99,111,112,101,32,111,102,32,119,111,114,107>>,
        \* 'deliverables'
        <<100,101,108,105,118,101,114,97,98,108,101,115>>,
        \* 'service provider'
        <<115,101,114,118,105,99,101,32,112,114,111,118,105,100,101,114>>,
        \* 'client'
        <<99,108,105,101,110,116>>,
        \* 'project'
        <<112,114,111,106,101,99,116>>
     >>]
  >>

\* keyword occurs in text at index i (the keyword fits there)
occurs_at(keyword, text, i) ==
  /\ text[i] = keyword[1]
  /\ \A j \in 2..Len(keyword) : text[i + j - 1] = keyword[j]

\* The occurrences str.count counts among the start indices `starts`, from
\* index `from` on: the leftmost one, then the leftmost one after its end.
RECURSIVE count_starts(_, _, _)
count_starts(starts, from, len) ==
  LET rest == {p \in starts : p >= from}
  IN  IF rest = {} THEN 0
      ELSE LET p == CHOOSE p \in rest : \A q \in rest : p <= q
           IN  1 + count_starts(rest, p + len, len)

\* Mutant of count: a keyword counts once however often it occurs.
count_presence(keyword, text) == IF contains(keyword, text) THEN 1 ELSE 0

\* text.count(keyword), keyword not empty: the number of non-overlapping
\* occurrences of keyword in text, found from the left.
count(keyword, text) ==
  count_starts({p \in 1..(Len(text) - Len(keyword) + 1) : occurs_at(keyword, text, p)},
               1, Len(keyword))

\* The inner loop: score = sum of the counts of the keywords of one type.
RECURSIVE keyword_score(_, _, _)
keyword_score(keywords, text_lower, k) ==
  IF k > Len(keywords) THEN 0
  ELSE count(keywords[k], text_lower) + keyword_score(keywords, text_lower, k + 1)

\* The dict `scores` after the outer loop, as the sequence of its values in
\* the order of type_keywords.
type_scores(text) ==
  LET text_lower == lower(text)
  IN  list([i \in DOMAIN type_keywords |->
              keyword_score(type_keywords[i].keywords, text_lower, 1)])

\* max(scores.values())
max_value(scores) == CHOOSE v \in {scores[i] : i \in DOMAIN scores} :
                       \A i \in DOMAIN scores : scores[i] <= v

\* Mutant of first_max: the last key that carries the largest value.
last_max(scores) ==
  CHOOSE i \in DOMAIN scores :
    /\ scores[i] = max_value(scores)
    /\ \A j \in DOMAIN scores : scores[j] = max_value(scores) => j <= i

\* max(scores, key=scores.get): the first key, in dict order, that carries the
\* largest value.
first_max(scores) ==
  CHOOSE i \in DOMAIN scores :
    /\ scores[i] = max_value(scores)
    /\ \A j \in DOMAIN scores : scores[j] = max_value(scores) => i <= j

\* ContractClassifier.classify
classify(text) ==
  LET result(scores) ==
        IF max_value(scores) > 0 THEN type_keywords[first_max(scores)].contract_type
        ELSE "general"
  IN  CHOOSE r \in {result(scores) : scores \in {type_scores(text)}} : TRUE

\* sum(scores.values())
scores_total(scores) == sum_range(scores, 1, Len(scores))

\* Mutant of normalize: a zero total gives the uniform distribution.
normalize_uniform(scores, total) ==
  IF total > 0 THEN [i \in DOMAIN scores |-> [num |-> scores[i], den |-> total]]
  ELSE [i \in DOMAIN scores |-> [num |-> 1, den |-> Len(scores)]]

\* Lines 83-85: every count divided by the total when the total is positive,
\* the counts themselves otherwise.  A value is kept as the fraction num/den;
\* the Python float v/total is the double nearest to that fraction, and an
\* untouched count v is v/1.
normalize(scores, total) ==
  IF total > 0 THEN [i \in DOMAIN scores |-> [num |-> scores[i], den |-> total]]
  ELSE [i \in DOMAIN scores |-> [num |-> scores[i], den |-> 1]]

\* ContractClassifier.get_confidence: the dict type -> value.
get_confidence(text) ==
  LET result(scores) ==
        LET values == normalize(scores, scores_total(scores))
        IN  [t \in {type_keywords[i].contract_type : i \in DOMAIN type_keywords} |->
               values[CHOOSE i \in DOMAIN type_keywords : type_keywords[i].contract_type = t]]
  IN  CHOOSE r \in {result(scores) : scores \in {type_scores(text)}} : TRUE

----------------------------------------------------------------------------
\* Explainer (backend/llm/explainer.py): explain_contract and the summary
\* without LLM.  The text a completion returns is the LLM's; the prompt has no
\* part in what explain_contract returns and is left out.

\* 'recommendation'
recommendation == <<114,101,99,111,109,109,101,110,100,97,116,105,111,110>>

\* text.split('\n') from index `from` on.
RECURSIVE split_lines(_, _, _)
split_lines(text, from, lines) ==
  IF next_newline(text, from) = 0 THEN Append(lines, SubSeq(text, from, Len(text)))
  ELSE split_lines(text, next_newline(text, from) + 1,
                   Append(lines, SubSeq(text, from, next_newline(text, from) - 1)))

\* One of the characters of '- '.
is_dash_or_blank(c) == c \in {45, 32}

RECURSIVE dash_run_end(_, _)
dash_run_end(text, i) ==
  IF i <= Len(text) /\ is_dash_or_blank(text[i]) THEN dash_run_end(text, i + 1) ELSE i

RECURSIVE dash_run_start(_, _)
dash_run_start(text, i) ==
  IF i >= 1 /\ is_dash_or_blank(text[i]) THEN dash_run_start(text, i - 1) ELSE i

\* line.strip('- ')
strip_dashes(s) == SubSeq(s, dash_run_end(s, 1), dash_run_start(s, Len(s)))

\* The recommendations when the response names none.
default_recommendations ==
  <<"Review high-risk clauses with legal counsel",
    "Negotiate unfavorable terms before signing",
    "Keep detailed records of all obligations">>

\* The loop of _extract_recommendations over the lines.
RECURSIVE recommendations_loop(_, _, _, _)
recommendations_loop(lines, i, in_recommendations, recommendations) ==
  IF i > Len(lines) THEN recommendations
  ELSE IF contains(recommendation, lower(lines[i]))
       THEN recommendations_loop(lines, i + 1, TRUE, recommendations)
  ELSE IF in_recommendations /\ strip(lines[i]) # <<>>
       THEN recommendations_loop(lines, i + 1, in_recommendations,
                                 Append(recommendations, strip(strip_dashes(lines[i]))))
  ELSE recommendations_loop(lines, i + 1, in_recommendations, recommendations)

\* Explainer._extract_recommendations
extract_recommendations(text) ==
  LET result(recommendations) ==
        IF recommendations # <<>>
        THEN SubSeq(recommendations, 1,
                    IF Len(recommendations) < 3 THEN Len(recommendations) ELSE 3)
        ELSE default_recommendations
  IN  CHOOSE r \in {result(recommendations) :
                      recommendations \in {recommendations_loop(split_lines(text, 1, <<>>),
                                                                1, FALSE, <<>>)}} : TRUE

\* str() of the composite_score of a risk_analysis: the int 0 of an empty
\* clause list, otherwise the float round(mean, 2), here in hundredths, with
\* the digits repr() writes.
format_score(risk_analysis) ==
  LET hundredths == risk_analysis.composite_score
      whole == ToString(hundredths \div 100)
  IN  IF risk_analysis.clause_count = 0 THEN "0"
      ELSE IF hundredths % 100 = 0 THEN whole \o ".0"
      ELSE IF hundredths % 10 = 0 THEN whole \o "." \o ToString((hundredths % 100) \div 10)
      ELSE IF hundredths % 100 < 10 THEN whole \o ".0" \o ToString(hundredths % 100)
      ELSE whole \o "." \o ToString(hundredths % 100)

\* risk_analysis.get('high_risk_clauses', 0)
high_risk_count(risk_analysis) ==
  IF "high_risk_clauses" \in DOMAIN risk_analysis THEN risk_analysis.high_risk_clauses ELSE 0

\* The recommendations of _generate_fallback_summary.
fallback_recommendations(risk_analysis) ==
  <<"Review " \o ToString(high_risk_count(risk_analysis)) \o " high-risk clause(s) carefully",
    "Consult legal advisor for unfavorable terms",
    "Document all obligations and deadlines">>

\* Explainer._generate_fallback_summary
generate_fallback_summary(ctype, cl, risk_analysis) ==
  [summary |->
     "This " \o ctype \o " contract contains " \o ToString(Len(cl))
       \o " clauses with an overall risk score of " \o format_score(risk_analysis)
       \o "/100 (" \o risk_analysis.risk_level \o " risk).\n\n"
       \o ToString(high_risk_count(risk_analysis))
       \o " clause(s) require careful attention. Review all high-risk clauses with legal counsel before signing.",
   recommendations |-> fallback_recommendations(risk_analysis)]

\* Mutant of explain_contract: the exception of the completion is not caught.
explain_contract_unguarded(api_key, completion, ctype, cl, risk_analysis) ==
  IF api_key = None \/ api_key = <<>> THEN Returned(generate_fallback_summary(ctype, cl, risk_analysis))
  ELSE IF "raised" \in DOMAIN completion THEN completion
  ELSE IF completion.returned = None
       THEN Returned(generate_fallback_summary(ctype, cl, risk_analysis))
  ELSE Returned([summary |-> completion.returned,
                 recommendations |-> extract_recommendations(completion.returned)])

\* Explainer.explain_contract.  api_key is GROQ_API_KEY as __init__ read it:
\* self.client is None when it is None or ''.  completion is how
\* self.client.chat.completions.create ended, with the message content it
\* returned (None: a message without content, on which text.split raises
\* inside the try).
explain_contract(api_key, completion, ctype, cl, risk_analysis) ==
  IF api_key = None \/ api_key = <<>> THEN Returned(generate_fallback_summary(ctype, cl, risk_analysis))
  ELSE IF "raised" \in DOMAIN completion
       THEN Returned(generate_fallback_summary(ctype, cl, risk_analysis))
  ELSE IF completion.returned = None
       THEN Returned(generate_fallback_summary(ctype, cl, risk_analysis))
  ELSE Returned([summary |-> completion.returned,
                 recommendations |-> extract_recommendations(completion.returned)])

----------------------------------------------------------------------------
\* analyze_contract (backend/routes/analyze.py) with the collaborators it
\* calls: the template files, EntityExtractor, ClauseSimilarity and
\* log_action.  What spaCy finds in a text is an input of the model.  Scores
\* of similarity are in hundredths (90 = 0.9); timestamps are left out.

\* JSON null, for which get_json gives None.
Null == [null |-> TRUE]

\* not data or 'contract_id' not in data or 'text' not in data
missing_fields(request_data) ==
  \/ request_data = Null
  \/ "contract_id" \notin DOMAIN request_data
  \/ "text" \notin DOMAIN request_data

\* Lines 49-52: the template file that is tried, named by its contract type:
\* that of the contract type when it exists, otherwise that of employment.
\* templates maps the types that have a file to what json.load makes of it.
template_path(templates, ctype) ==
  IF ctype \in DOMAIN templates THEN ctype ELSE "employment"

\* Lines 47-59: standard_clauses after the try block.
load_template(templates, ctype) ==
  LET path == template_path(templates, ctype)
  IN  IF path \notin DOMAIN templates THEN <<>>
      ELSE IF "raised" \in DOMAIN templates[path] THEN <<>>
      ELSE IF "clauses" \in DOMAIN templates[path].returned
           THEN templates[path].returned.clauses
      ELSE <<>>

\* EntityExtractor.extract without the spaCy model: six empty lists.
no_entities ==
  [parties |-> <<>>, dates |-> <<>>, amounts |-> <<>>,
   jurisdiction |-> <<>>, durations |-> <<>>, locations |-> <<>>]

\* The loop of compare_to_standard: similarity[k] is doc1.similarity(doc2)
\* for the k-th standard clause.
RECURSIVE best_match(_, _, _, _, _)
best_match(standard, similarity, k, best_score, best_text) ==
  IF k > Len(standard) THEN [score |-> best_score, text |-> best_text]
  ELSE IF similarity[k] > best_score
       THEN best_match(standard, similarity, k + 1, similarity[k], standard[k])
  ELSE best_match(standard, similarity, k + 1, best_score, best_text)

\* ClauseSimilarity.compare_to_standard
compare_to_standard(nlp, text, standard, similarity) ==
  IF ~nlp \/ strip(text) = <<>>
  THEN [match_score |-> 0, best_match_text |-> "", is_deviant |-> FALSE]
  ELSE LET best == best_match(standard, similarity, 1, 0, "")
       IN  [match_score |-> best.score, best_match_text |-> best.text,
            is_deviant |-> 60 <= best.score /\ best.score < 90]

\* clause['entities'] = ...
with_entities(clause, entities) ==
  [k \in DOMAIN clause \cup {"entities"} |->
     IF k = "entities" THEN entities ELSE clause[k]]

\* Lines 67-71: the similarity fields set on a clause.
with_similarity(clause, sim_result) ==
  [k \in DOMAIN clause \cup {"similarity_score", "is_standard", "deviation_flag"}
         \cup (IF sim_result.is_deviant THEN {"suggested_standard"} ELSE {}) |->
     IF k = "similarity_score" THEN sim_result.match_score
     ELSE IF k = "is_standard" THEN sim_result.match_score > 90
     ELSE IF k = "deviation_flag" THEN sim_result.is_deviant
     ELSE IF k = "suggested_standard" /\ sim_result.is_deviant THEN sim_result.best_match_text
     ELSE clause[k]]

\* Lines 61-71: the loop body for one clause.
enrich(clause, nlp, entities, standard, similarity) ==
  IF standard # <<>>
  THEN with_similarity(with_entities(clause, entities),
                       compare_to_standard(nlp, clause.text, standard, similarity))
  ELSE with_entities(clause, entities)

\* Mutant of log_action: the entry is written twice.
log_action_twice(log, contract_id, action, metadata, written) ==
  IF written
  THEN log \o <<[contract_id |-> contract_id, action |-> action, metadata |-> metadata],
               [contract_id |-> contract_id, action |-> action, metadata |-> metadata]>>
  ELSE log

\* log_action (backend/utils/audit_logger.py): the log file after the call;
\* a write that fails is caught and leaves the file as it was.
log_action(log, contract_id, action, metadata, written) ==
  IF written
  THEN Append(log, [contract_id |-> contract_id, action |-> action, metadata |-> metadata])
  ELSE log

\* Lines 82-92: the result that is returned with status 200.
analysis_result(contract_id, ctype, cl, risk_analysis, explained) ==
  [contract_id |-> contract_id,
   contract_type |-> ctype,
   risk_score |-> risk_analysis.composite_score,
   risk_level |-> risk_analysis.risk_level,
   clauses |-> cl,
   risk_flags |-> risk_analysis.flags,
   summary |-> explained.summary,
   recommendations |-> explained.recommendations]

\* Line 29
missing_response ==
  [status |-> 400, body |-> [error |-> "Missing contract_id or text"]]

\* Lines 103-107
failed_response(exception) ==
  [status |-> 500, body |-> [error |-> "Analysis failed", details |-> exception]]

----------------------------------------------------------------------------
\* Input texts.  ScenarioA, ScenarioB and the Hindi sentences are the strings of
\* tests/test_risk/test_risk_scorer.py and tests/test_new_features.py.

\* '\n    The Company may terminate this agreement at any time without cause\n    and without notice. The Employee shall have unlimited liability\n    for any damages.\n    '
ScenarioA ==
  <<10,32,32,32,32,84,104,101,32,67,111,109,112,97,110,121,32,109,97,121,32,116,101,114,109,105,110,97,116,101,32,116,104,105,115,32,97,103,114,101,101,109,101,110,116,32,97,116,32,97,110,121,32,116,105,109,101,32,119,105,116,104,111,117,116,32,99,97,117,115,101,10,32,32,32,32,97,110,100,32,119,105,116,104,111,117,116,32,110,111,116,105,99,101,46,32,84,104,101,32,69,109,112,108,111,121,101,101,32,115,104,97,108,108,32,104,97,118,101,32,117,110,108,105,109,105,116,101,100,32,108,105,97,98,105,108,105,116,121,10,32,32,32,32,102,111,114,32,97,110,121,32,100,97,109,97,103,101,115,46,10,32,32,32,32>>

\* 'The Company may terminate this agreement at any time without cause and without notice. The Employee shall have unlimited liability for any damages.'
ScenarioASpec ==
  <<84,104,101,32,67,111,109,112,97,110,121,32,109,97,121,32,116,101,114,109,105,110,97,116,101,32,116,104,105,115,32,97,103,114,101,101,109,101,110,116,32,97,116,32,97,110,121,32,116,105,109,101,32,119,105,116,104,111,117,116,32,99,97,117,115,101,32,97,110,100,32,119,105,116,104,111,117,116,32,110,111,116,105,99,101,46,32,84,104,101,32,69,109,112,108,111,121,101,101,32,115,104,97,108,108,32,104,97,118,101,32,117,110,108,105,109,105,116,101,100,32,108,105,97,98,105,108,105,116,121,32,102,111,114,32,97,110,121,32,100,97,109,97,103,101,115,46>>

\* '\n    The parties agree to maintain confidentiality of proprietary information\n    disclosed during the term of this agreement.\n    '
ScenarioB ==
  <<10,32,32,32,32,84,104,101,32,112,97,114,116,105,101,115,32,97,103,114,101,101,32,116,111,32,109,97,105,110,116,97,105,110,32,99,111,110,102,105,100,101,110,116,105,97,108,105,116,121,32,111,102,32,112,114,111,112,114,105,101,116,97,114,121,32,105,110,102,111,114,109,97,116,105,111,110,10,32,32,32,32,100,105,115,99,108,111,115,101,100,32,100,117,114,105,110,103,32,116,104,101,32,116,101,114,109,32,111,102,32,116,104,105,115,32,97,103,114,101,101,109,101,110,116,46,10,32,32,32,32>>

\* ग्राहक को 30 दिनों के भीतर भुगतान करना होगा।
HindiObligation ==
  <<2327,2381,2352,2366,2361,2325,32,2325,2379,32,51,48,32,2342,2367,2344,2379,2306,32,2325,2375,32,2349,2368,2340,2352,32,2349,2369,2327,2340,2366,2344,32,2325,2352,2344,2366,32,2361,2379,2327,2366,2404>>

\* कर्मचारी को छुट्टी का अधिकार है।
HindiRight ==
  <<2325,2352,2381,2350,2330,2366,2352,2368,32,2325,2379,32,2331,2369,2335,2381,2335,2368,32,2325,2366,32,2309,2343,2367,2325,2366,2352,32,2361,2376,2404>>

Fragments ==
  <<
    \* 'The Company may terminate '
    <<84,104,101,32,67,111,109,112,97,110,121,32,109,97,121,32,116,101,114,109,105,110,97,116,101,32>>,
    \* 'with Unlimited Liability '
    <<119,105,116,104,32,85,110,108,105,109,105,116,101,100,32,76,105,97,98,105,108,105,116,121,32>>,
    \* 'exclusive jurisdiction of the Courts of Singapore under ICC Rules '
    <<101,120,99,108,117,115,105,118,101,32,106,117,114,105,115,100,105,99,116,105,111,110,32,111,102,32,116,104,101,32,67,111,117,114,116,115,32,111,102,32,83,105,110,103,97,112,111,114,101,32,117,110,100,101,114,32,73,67,67,32,82,117,108,101,115,32>>,
    \* 'if outside India '
    <<105,102,32,111,117,116,115,105,100,101,32,73,110,100,105,97,32>>,
    \* 'SHALL'
    <<83,72,65,76,76>>,
    \* ' not compete after termination '
    <<32,110,111,116,32,99,111,109,112,101,116,101,32,97,102,116,101,114,32,116,101,114,109,105,110,97,116,105,111,110,32>>,
    \* 'a penalty of reasonable amount '
    <<97,32,112,101,110,97,108,116,121,32,111,102,32,114,101,97,115,111,110,97,98,108,101,32,97,109,111,117,110,116,32>>,
    \* 'cannot terminate during the lock-in period '
    <<99,97,110,110,111,116,32,116,101,114,109,105,110,97,116,101,32,100,117,114,105,110,103,32,116,104,101,32,108,111,99,107,45,105,110,32,112,101,114,105,111,100,32>>,
    \* 'work for hire means ownership of all work '
    <<119,111,114,107,32,102,111,114,32,104,105,114,101,32,109,101,97,110,115,32,111,119,110,101,114,115,104,105,112,32,111,102,32,97,108,108,32,119,111,114,107,32>>,
    \* यह वर्जित है 
    <<2351,2361,32,2357,2352,2381,2332,2367,2340,32,2361,2376,32>>,
    HindiObligation
  >>

\* 'Standard payment terms apply.'
StandardPayment ==
  <<83,116,97,110,100,97,114,100,32,112,97,121,109,101,110,116,32,116,101,114,109,115,32,97,112,112,108,121,46>>

\* 'Party may terminate without cause.'
MayTerminate ==
  <<80,97,114,116,121,32,109,97,121,32,116,101,114,109,105,110,97,116,101,32,119,105,116,104,111,117,116,32,99,97,117,115,101,46>>

\* 'Unlimited liability for all damages.'
UnlimitedLiability ==
  <<85,110,108,105,109,105,116,101,100,32,108,105,97,98,105,108,105,116,121,32,102,111,114,32,97,108,108,32,100,97,109,97,103,101,115,46>>

\* 'Use reasonable care.'
Reasonable ==
  <<85,115,101,32,114,101,97,115,111,110,97,98,108,101,32,99,97,114,101,46>>

\* 'Unlimited liability, ICC Rules, best efforts.'
Score80 ==
  <<85,110,108,105,109,105,116,101,100,32,108,105,97,98,105,108,105,116,121,44,32,73,67,67,32,82,117,108,101,115,44,32,98,101,115,116,32,101,102,102,111,114,116,115,46>>

\* 'Penalty, work for hire, outside India.'
Score90 ==
  <<80,101,110,97,108,116,121,44,32,119,111,114,107,32,102,111,114,32,104,105,114,101,44,32,111,117,116,115,105,100,101,32,73,110,100,105,97,46>>

\* 'No limit, ICC rules.'
Score70 ==
  <<78,111,32,108,105,109,105,116,44,32,73,67,67,32,114,117,108,101,115,46>>

\* 'Penalty, outside India.'
Score65 ==
  <<80,101,110,97,108,116,121,44,32,111,117,116,115,105,100,101,32,73,110,100,105,97,46>>

\* 'Outside India.'
Score40 ==
  <<79,117,116,115,105,100,101,32,73,110,100,105,97,46>>


RECURSIVE TextsOfLen(_)
TextsOfLen(n) ==
  IF n = 0 THEN {<<>>}
  ELSE {t \o Fragments[i] : t \in TextsOfLen(n - 1), i \in DOMAIN Fragments}

\* Every concatenation of at most MaxFrags fragments, and the texts of the tests
\* and scenarios.
Texts ==
  UNION {TextsOfLen(n) : n \in 0..MaxFrags}
  \cup {ScenarioA, ScenarioASpec, ScenarioB, HindiObligation, HindiRight}

\* contract_type values passed by the tests.
ContractTypes == {"employment", "service"}

\* A result variable before the call is made; every operation is called once.
NotCalled == [pending |-> TRUE]

\* A clause dict as ClauseExtractor.extract leaves it (the keys score_contract
\* reads or writes), or one that was scored before and carries the level of
\* that scoring.
fresh_clause(text) == [text |-> text, type |-> classify_clause(text)]

stale_clause(text) == set_risk(fresh_clause(text), 100, "high")

\* No document is analysed: the classifier and the extractor are not called.
NoDocument ==
  /\ document = <<>>
  /\ type_result = "pending"
  /\ confidence_result = NotCalled
  /\ extract_result = NotCalled

\* No request is handled by analyze_contract.
NoHandler ==
  /\ environment = NotCalled
  /\ data = NotCalled
  /\ pc = "idle"
  /\ standard_clauses = <<>>
  /\ explanations = NotCalled
  /\ audit_log = <<>>
  /\ response = NotCalled

\* No request is handled and no analysis is under way.
NoRequest ==
  /\ NoHandler
  /\ analyses = <<>>

----------------------------------------------------------------------------
\* Clause-level specification: one clause text, scored and role-tagged on its
\* own and scored as the only clause of a clause list.

Init ==
  /\ clause_text \in Texts
  /\ contract_type \in ContractTypes
  /\ clauses = <<fresh_clause(clause_text)>>
  /\ clause_result = NotCalled
  /\ role_result = "pending"
  /\ contract_result = NotCalled
  /\ NoDocument
  /\ NoRequest

ScoreClause ==
  /\ clause_result = NotCalled
  /\ clause_result' = score_clause(clause_text, contract_type)
  /\ UNCHANGED <<clause_text, contract_type, clauses, role_result, contract_result>>
  /\ UNCHANGED document_vars
  /\ UNCHANGED <<request_vars, analyses>>

ClassifyClause ==
  /\ role_result = "pending"
  /\ role_result' = classify_clause(clause_text)
  /\ UNCHANGED <<clause_text, contract_type, clauses, clause_result, contract_result>>
  /\ UNCHANGED document_vars
  /\ UNCHANGED <<request_vars, analyses>>

ScoreContract ==
  /\ contract_result = NotCalled
  /\ \E outcome \in score_contract(contract_type, clauses) :
    /\ clauses' = outcome.clauses
    /\ contract_result' = outcome.result
    /\ UNCHANGED <<clause_text, contract_type, clause_result, role_result>>
    /\ UNCHANGED document_vars
    /\ UNCHANGED <<request_vars, analyses>>

Next == ScoreClause \/ ClassifyClause \/ ScoreContract

Spec == Init /\ [][Next]_vars

----------------------------------------------------------------------------
\* Contract-level specification: a clause list, scored by score_contract.

\* The clause texts of test_composite_score, and texts scoring 10, 65, 80
\* and 90.
ClauseTexts ==
  {StandardPayment, MayTerminate, UnlimitedLiability, Reasonable, Score65, Score80, Score90}

RECURSIVE ListsOfLen(_, _)
ListsOfLen(S, n) ==
  IF n = 0 THEN {<<>>}
  ELSE {Append(l, x) : l \in ListsOfLen(S, n - 1), x \in S}

\* Every clause list of at most max clauses over ClauseTexts, all fresh or all
\* scored before.
ClauseLists(max) ==
  UNION {ListsOfLen({fresh_clause(t) : t \in ClauseTexts}, n) : n \in 0..max}
  \cup UNION {ListsOfLen({stale_clause(t) : t \in ClauseTexts}, n) : n \in 1..max}

InitContract ==
  /\ clause_text = <<>>
  /\ contract_type \in ContractTypes
  /\ clauses \in ClauseLists(MaxClauses)
  /\ clause_result = NotCalled
  /\ role_result = "pending"
  /\ contract_result = NotCalled
  /\ NoDocument
  /\ NoRequest

NextContract == ScoreContract

SpecContract == InitContract /\ [][NextContract]_vars

\* Long clause lists: n clauses, all with the same text but one.
LongTexts == {UnlimitedLiability, Score40, Score65, Score70}

LongLists(len) ==
  {[i \in 1..n |-> IF i = j THEN odd ELSE common] :
     n \in {len, len + 1}, j \in {1, len},
     odd \in {fresh_clause(t) : t \in LongTexts},
     common \in {fresh_clause(t) : t \in LongTexts}}

InitLong ==
  /\ clause_text = <<>>
  /\ contract_type \in ContractTypes
  /\ clauses \in LongLists(LongLen)
  /\ clause_result = NotCalled
  /\ role_result = "pending"
  /\ contract_result = NotCalled
  /\ NoDocument
  /\ NoRequest

SpecLong == InitLong /\ [][NextContract]_vars

\* Pairs of clauses: a clause text, and the same text with one more fragment of
\* the vocabulary.
PairTexts ==
  {StandardPayment, MayTerminate, UnlimitedLiability, Reasonable, Score40, Score65,
   Score70, Score80, Score90, ScenarioA, ScenarioB}

PairLists ==
  {<<fresh_clause(t), fresh_clause(t \o Fragments[i])>> :
     t \in PairTexts, i \in DOMAIN Fragments}

InitPair ==
  /\ clause_text = <<>>
  /\ contract_type \in ContractTypes
  /\ clauses \in PairLists
  /\ clause_result = NotCalled
  /\ role_result = "pending"
  /\ contract_result = NotCalled
  /\ NoDocument
  /\ NoRequest

SpecPair == InitPair /\ [][NextContract]_vars

----------------------------------------------------------------------------
\* Document-level specification of the classifier: one document text, handed
\* to ContractClassifier.classify and ContractClassifier.get_confidence.

\* The text of test_employment_classification (test_classification.py:11-17).
EmploymentDocument ==
  <<10,32,32,32,32,69,109,112,108,111,121,109,101,110,116,32,65,103,114,101,101,109,101,110,116,10,32,32,32,32,84,104,105,115,32,97,103,114,101,101,109,101,110,116,32,105,115,32,98,101,116,119,101,101,110,32,88,89,90,32,67,111,109,112,97,110,121,32,40,69,109,112,108,111,121,101,114,41,32,97,110,100,32,74,97,110,101,32,68,111,101,32,40,69,109,112,108,111,121,101,101,41,46,10,32,32,32,32,80,111,115,105,116,105,111,110,58,32,83,111,102,116,119,97,114,101,32,69,110,103,105,110,101,101,114,10,32,32,32,32,83,97,108,97,114,121,58,32,82,115,46,32,56,48,44,48,48,48,32,112,101,114,32,109,111,110,116,104,10,32,32,32,32,76,101,97,118,101,58,32,50,49,32,100,97,121,115,32,112,97,105,100,32,108,101,97,118,101,32,112,101,114,32,121,101,97,114,10,32,32,32,32>>

\* The text of test_vendor_classification (test_classification.py:26-31).
VendorDocument ==
  <<10,32,32,32,32,86,101,110,100,111,114,32,65,103,114,101,101,109,101,110,116,10,32,32,32,32,84,104,105,115,32,112,117,114,99,104,97,115,101,32,111,114,100,101,114,32,105,115,32,102,111,114,32,116,104,101,32,115,117,112,112,108,121,32,111,102,32,49,48,48,32,117,110,105,116,115,32,111,102,32,80,114,111,100,117,99,116,32,88,10,32,32,32,32,116,111,32,98,101,32,100,101,108,105,118,101,114,101,100,32,98,121,32,116,104,101,32,118,101,110,100,111,114,32,119,105,116,104,105,110,32,51,48,32,100,97,121,115,46,10,32,32,32,32,80,97,121,109,101,110,116,32,116,101,114,109,115,58,32,78,101,116,32,51,48,32,100,97,121,115,32,97,102,116,101,114,32,100,101,108,105,118,101,114,121,46,10,32,32,32,32>>

\* The text of test_lease_classification (test_classification.py:40-46).
LeaseDocument ==
  <<10,32,32,32,32,76,101,97,115,101,32,65,103,114,101,101,109,101,110,116,10,32,32,32,32,84,104,101,32,108,97,110,100,108,111,114,100,32,97,103,114,101,101,115,32,116,111,32,108,101,97,115,101,32,116,104,101,32,112,114,101,109,105,115,101,115,32,108,111,99,97,116,101,100,32,97,116,32,49,50,51,32,77,97,105,110,32,83,116,114,101,101,116,10,32,32,32,32,116,111,32,116,104,101,32,116,101,110,97,110,116,32,102,111,114,32,97,32,109,111,110,116,104,108,121,32,114,101,110,116,32,111,102,32,82,115,46,32,50,53,44,48,48,48,46,10,32,32,32,32,83,101,99,117,114,105,116,121,32,100,101,112,111,115,105,116,58,32,82,115,46,32,53,48,44,48,48,48,10,32,32,32,32,76,101,97,115,101,32,116,101,114,109,58,32,49,49,32,109,111,110,116,104,115,10,32,32,32,32>>

\* The text of test_service_classification (test_classification.py:55-60).
ServiceDocument ==
  <<10,32,32,32,32,80,114,111,102,101,115,115,105,111,110,97,108,32,83,101,114,118,105,99,101,115,32,65,103,114,101,101,109,101,110,116,10,32,32,32,32,84,104,101,32,99,111,110,115,117,108,116,97,110,116,32,97,103,114,101,101,115,32,116,111,32,112,114,111,118,105,100,101,32,115,111,102,116,119,97,114,101,32,100,101,118,101,108,111,112,109,101,110,116,32,115,101,114,118,105,99,101,115,10,32,32,32,32,116,111,32,116,104,101,32,99,108,105,101,110,116,46,32,83,99,111,112,101,32,111,102,32,119,111,114,107,32,105,110,99,108,117,100,101,115,32,100,101,115,105,103,110,44,32,100,101,118,101,108,111,112,109,101,110,116,44,32,97,110,100,32,116,101,115,116,105,110,103,46,10,32,32,32,32,68,101,108,105,118,101,114,97,98,108,101,115,32,115,104,97,108,108,32,98,101,32,115,117,98,109,105,116,116,101,100,32,119,105,116,104,105,110,32,51,32,109,111,110,116,104,115,46,10,32,32,32,32>>

\* Vocabulary of the classified documents: keywords of every type, a keyword
\* inside another one ('employment agreement', 'partnership'), upper case, a
\* keyword overlapping itself ('tenantenant'), keywords of two types in one
\* fragment, and text without any keyword.
TypeFragments ==
  <<
    \* 'Employment Agreement '
    <<69,109,112,108,111,121,109,101,110,116,32,65,103,114,101,101,109,101,110,116,32>>,
    \* 'The EMPLOYEE gets a salary. '
    <<84,104,101,32,69,77,80,76,79,89,69,69,32,103,101,116,115,32,97,32,115,97,108,97,114,121,46,32>>,
    \* 'Vendor ships goods. '
    <<86,101,110,100,111,114,32,115,104,105,112,115,32,103,111,111,100,115,46,32>>,
    \* 'Lease of the premises. '
    <<76,101,97,115,101,32,111,102,32,116,104,101,32,112,114,101,109,105,115,101,115,46,32>>,
    \* 'Partnership '
    <<80,97,114,116,110,101,114,115,104,105,112,32>>,
    \* 'The client project. '
    <<84,104,101,32,99,108,105,101,110,116,32,112,114,111,106,101,99,116,46,32>>,
    \* 'rent '
    <<114,101,110,116,32>>,
    \* 'tenantenant '
    <<116,101,110,97,110,116,101,110,97,110,116,32>>,
    \* 'Nothing relevant here. '
    <<78,111,116,104,105,110,103,32,114,101,108,101,118,97,110,116,32,104,101,114,101,46,32>>,
    \* 'rent for services '
    <<114,101,110,116,32,102,111,114,32,115,101,114,118,105,99,101,115,32>>
  >>

RECURSIVE DocumentsOfLen(_, _)
DocumentsOfLen(fragments, n) ==
  IF n = 0 THEN {<<>>}
  ELSE {d \o fragments[i] : d \in DocumentsOfLen(fragments, n - 1), i \in DOMAIN fragments}

\* Every concatenation of at most max fragments, and the documents of
\* tests/test_extraction/test_classification.py.
TypeDocuments(max) ==
  UNION {DocumentsOfLen(TypeFragments, n) : n \in 0..max}
  \cup {EmploymentDocument, VendorDocument, LeaseDocument, ServiceDocument}

\* No clause is scored: the scorer and the role tagger are not called.
NoClause ==
  /\ clause_text = <<>>
  /\ contract_type = "general"
  /\ clauses = <<>>
  /\ clause_result = NotCalled
  /\ role_result = "pending"
  /\ contract_result = NotCalled

InitClassify ==
  /\ document \in TypeDocuments(MaxFrags)
  /\ type_result = "pending"
  /\ confidence_result = NotCalled
  /\ extract_result = NotCalled
  /\ NoClause
  /\ NoRequest

Classify ==
  /\ type_result = "pending"
  /\ type_result' = classify(document)
  /\ UNCHANGED <<document, confidence_result, extract_result>>
  /\ UNCHANGED clause_vars
  /\ UNCHANGED <<request_vars, analyses>>

GetConfidence ==
  /\ confidence_result = NotCalled
  /\ confidence_result' = get_confidence(document)
  /\ UNCHANGED <<document, type_result, extract_result>>
  /\ UNCHANGED clause_vars
  /\ UNCHANGED <<request_vars, analyses>>

NextClassify == Classify \/ GetConfidence

SpecClassify == InitClassify /\ [][NextClassify]_vars

----------------------------------------------------------------------------
\* Document-level specification of the extractor: one document text, handed to
\* ClauseExtractor.extract.

\* Vocabulary of the documents handed to extract: three headings, a body, a body
\* that begins with a digit, a paragraph of exactly 20 characters, a line of
\* 21 characters that a title can run into, a line break and a blank.
Blocks ==
  <<
    \* '1. Scope\n'
    <<49,46,32,83,99,111,112,101,10>>,
    \* 'ARTICLE 2\n'
    <<65,82,84,73,67,76,69,32,50,10>>,
    \* '2.1 Fees (net)\n'
    <<50,46,49,32,70,101,101,115,32,40,110,101,116,41,10>>,
    \* 'The Employee shall work.\n\n'
    <<84,104,101,32,69,109,112,108,111,121,101,101,32,115,104,97,108,108,32,119,111,114,107,46,10,10>>,
    \* '30 days notice is due on exit.\n\n'
    <<51,48,32,100,97,121,115,32,110,111,116,105,99,101,32,105,115,32,100,117,101,32,111,110,32,101,120,105,116,46,10,10>>,
    \* 'Twenty chars exactly\n\n'
    <<84,119,101,110,116,121,32,99,104,97,114,115,32,101,120,97,99,116,108,121,10,10>>,
    \* '\n'
    <<10>>,
    \* ' '
    <<32>>,
    \* 'Twenty-one chars long\n'
    <<84,119,101,110,116,121,45,111,110,101,32,99,104,97,114,115,32,108,111,110,103,10>>
  >>

\* A single block of exactly 20 characters.
\* 'Twenty chars exactly'
TwentyChars ==
  <<84,119,101,110,116,121,32,99,104,97,114,115,32,101,120,97,99,116,108,121>>

\* The same block with whitespace around it.
\* '  Twenty chars exactly \n'
TwentyCharsPadded ==
  <<32,32,84,119,101,110,116,121,32,99,104,97,114,115,32,101,120,97,99,116,108,121,32,10>>

\* A single block of 21 characters.
\* 'Twenty-one chars long'
TwentyOneChars ==
  <<84,119,101,110,116,121,45,111,110,101,32,99,104,97,114,115,32,108,111,110,103>>

\* A single block of exactly 50 characters.
\* 'The Client shall pay the fee within thirty days ok'
FiftyChars ==
  <<84,104,101,32,67,108,105,101,110,116,32,115,104,97,108,108,32,112,97,121,32,116,104,101,32,102,101,101,32,119,105,116,104,105,110,32,116,104,105,114,116,121,32,100,97,121,115,32,111,107>>

\* A single block of two lines, longer than 50 characters.
\* 'The Contractor shall deliver the work on time\nand the Client may not withhold the agreed fee.'
TwoLines ==
  <<84,104,101,32,67,111,110,116,114,97,99,116,111,114,32,115,104,97,108,108,32,100,101,108,105,118,101,114,32,116,104,101,32,119,111,114,107,32,111,110,32,116,105,109,101,10,97,110,100,32,116,104,101,32,67,108,105,101,110,116,32,109,97,121,32,110,111,116,32,119,105,116,104,104,111,108,100,32,116,104,101,32,97,103,114,101,101,100,32,102,101,101,46>>

\* Two paragraphs with Windows line ends.
\* 'First party shall pay the fee.\r\n\r\nSecond party may terminate at will.\r\n'
CrLfParagraphs ==
  <<70,105,114,115,116,32,112,97,114,116,121,32,115,104,97,108,108,32,112,97,121,32,116,104,101,32,102,101,101,46,13,10,13,10,83,101,99,111,110,100,32,112,97,114,116,121,32,109,97,121,32,116,101,114,109,105,110,97,116,101,32,97,116,32,119,105,108,108,46,13,10>>

\* Three sections under two numbered headings; the body of the first heading begins with a digit.
\* 'This agreement is made between the parties.\n\n1. Notice\n30 days written notice must be given.\n\n2. Fe...
NoticeContract ==
  <<84,104,105,115,32,97,103,114,101,101,109,101,110,116,32,105,115,32,109,97,100,101,32,98,101,116,119,101,101,110,32,116,104,101,32,112,97,114,116,105,101,115,46,10,10,49,46,32,78,111,116,105,99,101,10,51,48,32,100,97,121,115,32,119,114,105,116,116,101,110,32,110,111,116,105,99,101,32,109,117,115,116,32,98,101,32,103,105,118,101,110,46,10,10,50,46,32,70,101,101,115,10,84,104,101,32,99,108,105,101,110,116,32,115,104,97,108,108,32,112,97,121,32,97,108,108,32,102,101,101,115,32,111,110,32,116,105,109,101,46,10>>

\* The same, the body of the first heading being 100 characters long.
\* 'This agreement is made between the parties.\n\n1. Term\n12 months from the date of signing, renewed for ...
LongTermContract ==
  <<84,104,105,115,32,97,103,114,101,101,109,101,110,116,32,105,115,32,109,97,100,101,32,98,101,116,119,101,101,110,32,116,104,101,32,112,97,114,116,105,101,115,46,10,10,49,46,32,84,101,114,109,10,49,50,32,109,111,110,116,104,115,32,102,114,111,109,32,116,104,101,32,100,97,116,101,32,111,102,32,115,105,103,110,105,110,103,44,32,114,101,110,101,119,101,100,32,102,111,114,32,102,117,114,116,104,101,114,32,116,101,114,109,115,32,111,102,32,49,50,32,109,111,110,116,104,115,32,117,110,108,101,115,115,32,111,110,101,32,112,97,114,116,121,32,111,98,106,101,99,116,115,46,10,10,50,46,32,70,101,101,115,10,84,104,101,32,99,108,105,101,110,116,32,115,104,97,108,108,32,112,97,121,32,97,108,108,32,102,101,101,115,32,111,110,32,116,105,109,101,46,10>>

\* Two sections under ARTICLE headings, whitespace between the headings.
\* 'Preamble of the agreement between the parties.\n\nARTICLE 1\n \nArticle 2\nArticle 2 applies to every pa...
ArticleContract ==
  <<80,114,101,97,109,98,108,101,32,111,102,32,116,104,101,32,97,103,114,101,101,109,101,110,116,32,98,101,116,119,101,101,110,32,116,104,101,32,112,97,114,116,105,101,115,46,10,10,65,82,84,73,67,76,69,32,49,10,32,10,65,114,116,105,99,108,101,32,50,10,65,114,116,105,99,108,101,32,50,32,97,112,112,108,105,101,115,32,116,111,32,101,118,101,114,121,32,112,97,114,116,121,32,111,102,32,116,104,105,115,32,97,103,114,101,101,109,101,110,116,46,10>>

\* Two paragraphs in Hindi.
HindiParagraphs == HindiObligation \o <<10, 10>> \o HindiRight

\* Every concatenation of at most max blocks, and the documents above.
ExtractDocuments(max) ==
  UNION {DocumentsOfLen(Blocks, n) : n \in 0..max}
  \cup {TwentyChars, TwentyCharsPadded, TwentyOneChars, FiftyChars, TwoLines, CrLfParagraphs,
        NoticeContract, LongTermContract, ArticleContract, HindiParagraphs}

InitExtract ==
  /\ document \in ExtractDocuments(MaxBlocks)
  /\ type_result = "pending"
  /\ confidence_result = NotCalled
  /\ extract_result = NotCalled
  /\ NoClause
  /\ NoRequest

Extract ==
  /\ extract_result = NotCalled
  /\ extract_result' = extract(document)
  /\ UNCHANGED <<document, type_result, confidence_result>>
  /\ UNCHANGED clause_vars
  /\ UNCHANGED <<request_vars, analyses>>

NextExtract == Extract

SpecExtract == InitExtract /\ [][NextExtract]_vars

----------------------------------------------------------------------------
\* Sectioned documents: a preamble or none, then sections, each a heading on a
\* line of its own followed by a body that ends with a full stop.

\* No preamble, and a preamble of one sentence.
Preambles ==
  <<
    \* ''
    <<>>,
    \* 'This agreement is made between the parties.\n'
    <<84,104,105,115,32,97,103,114,101,101,109,101,110,116,32,105,115,32,109,97,100,101,32,98,101,116,119,101,101,110,32,116,104,101,32,112,97,114,116,105,101,115,46,10>>
  >>

\* A numbered heading, an ARTICLE heading and a heading with a dotted number,
\* each after a line break.
Headings ==
  <<
    \* '\n1. Scope\n'
    <<10,49,46,32,83,99,111,112,101,10>>,
    \* '\nARTICLE 2\n'
    <<10,65,82,84,73,67,76,69,32,50,10>>,
    \* '\n2.1 Fees (net)\n'
    <<10,50,46,49,32,70,101,101,115,32,40,110,101,116,41,10>>
  >>

\* Bodies: a sentence, a sentence that begins with a digit, one that begins
\* with the word Article, a body of 11 characters, and a body of 100
\* characters that begins with a digit.
Bodies ==
  <<
    \* 'The Employee shall work.\n'
    <<84,104,101,32,69,109,112,108,111,121,101,101,32,115,104,97,108,108,32,119,111,114,107,46,10>>,
    \* '30 days written notice must be given.\n'
    <<51,48,32,100,97,121,115,32,119,114,105,116,116,101,110,32,110,111,116,105,99,101,32,109,117,115,116,32,98,101,32,103,105,118,101,110,46,10>>,
    \* 'Article 2 applies to every party.\n'
    <<65,114,116,105,99,108,101,32,50,32,97,112,112,108,105,101,115,32,116,111,32,101,118,101,114,121,32,112,97,114,116,121,46,10>>,
    \* 'Short body.\n'
    <<83,104,111,114,116,32,98,111,100,121,46,10>>,
    \* '12 months from the date of signing, renewed for further terms of 12 months unless one party objects.\n'
    <<49,50,32,109,111,110,116,104,115,32,102,114,111,109,32,116,104,101,32,100,97,116,101,32,111,102,32,115,105,103,110,105,110,103,44,32,114,101,110,101,119,101,100,32,102,111,114,32,102,117,114,116,104,101,114,32,116,101,114,109,115,32,111,102,32,49,50,32,109,111,110,116,104,115,32,117,110,108,101,115,115,32,111,110,101,32,112,97,114,116,121,32,111,98,106,101,99,116,115,46,10>>
  >>

RECURSIVE SectionsOfLen(_)
SectionsOfLen(n) ==
  IF n = 0 THEN {<<>>}
  ELSE {d \o Headings[h] \o Bodies[b] :
          d \in SectionsOfLen(n - 1), h \in DOMAIN Headings, b \in DOMAIN Bodies}

\* Every document of a preamble and 1 to max sections.
SectionedDocuments(max) ==
  {Preambles[p] \o d : p \in DOMAIN Preambles, d \in UNION {SectionsOfLen(n) : n \in 1..max}}

InitSections ==
  /\ document \in SectionedDocuments(MaxSections)
  /\ type_result = "pending"
  /\ confidence_result = NotCalled
  /\ extract_result = NotCalled
  /\ NoClause
  /\ NoRequest

SpecSections == InitSections /\ [][NextExtract]_vars

----------------------------------------------------------------------------
\* Request-level specification: one request handled by analyze_contract, from
\* the JSON body to the response, in an environment that is fixed when the
\* request arrives.

\* A text of less than 20 characters.
\* 'Short text.'
ShortText ==
  <<83,104,111,114,116,32,116,101,120,116,46>>

\* A short text with a keyword of a contract type.
\* 'Lease of premises.'
ShortLease ==
  <<76,101,97,115,101,32,111,102,32,112,114,101,109,105,115,101,115,46>>

\* A heading on a line of its own after an empty line, and nothing else.
\* '\n\n1. Scope\n'
ShortHeading ==
  <<10,10,49,46,32,83,99,111,112,101,10>>

\* Two paragraphs of a lease, one of them scoring 65.
\* 'The tenant shall pay rent monthly.\n\nThe landlord may terminate the lease without limitation.\n'
LeaseParagraphs ==
  <<84,104,101,32,116,101,110,97,110,116,32,115,104,97,108,108,32,112,97,121,32,114,101,110,116,32,109,111,110,116,104,108,121,46,10,10,84,104,101,32,108,97,110,100,108,111,114,100,32,109,97,121,32,116,101,114,109,105,110,97,116,101,32,116,104,101,32,108,101,97,115,101,32,119,105,116,104,111,117,116,32,108,105,109,105,116,97,116,105,111,110,46,10>>

\* Three paragraphs of an employment contract, two of them scoring 90.
\* 'The Employee shall work.\n\nThe Company may terminate at will, with unlimited liability and a penalty.\n\nThe Employee shall not compete after termination, under a penalty without limitation.\n'
RiskyEmployment ==
  <<84,104,101,32,69,109,112,108,111,121,101,101,32,115,104,97,108,108,32,119,111,114,107,46,10,10,84,104,101,32,67,111,109,112,97,110,121,32,109,97,121,32,116,101,114,109,105,110,97,116,101,32,97,116,32,119,105,108,108,44,32,119,105,116,104,32,117,110,108,105,109,105,116,101,100,32,108,105,97,98,105,108,105,116,121,32,97,110,100,32,97,32,112,101,110,97,108,116,121,46,10,10,84,104,101,32,69,109,112,108,111,121,101,101,32,115,104,97,108,108,32,110,111,116,32,99,111,109,112,101,116,101,32,97,102,116,101,114,32,116,101,114,109,105,110,97,116,105,111,110,44,32,117,110,100,101,114,32,97,32,112,101,110,97,108,116,121,32,119,105,116,104,111,117,116,32,108,105,109,105,116,97,116,105,111,110,46,10>>

\* Two paragraphs without a keyword of a contract type, one of them scoring 75.
\* 'Payment is due within thirty days.\n\nDisputes go to the courts of Singapore under ICC rules.\n'
SingaporeParagraphs ==
  <<80,97,121,109,101,110,116,32,105,115,32,100,117,101,32,119,105,116,104,105,110,32,116,104,105,114,116,121,32,100,97,121,115,46,10,10,68,105,115,112,117,116,101,115,32,103,111,32,116,111,32,116,104,101,32,99,111,117,114,116,115,32,111,102,32,83,105,110,103,97,112,111,114,101,32,117,110,100,101,114,32,73,67,67,32,114,117,108,101,115,46,10>>

\* A response of the LLM with a list of recommendations.
\* 'This contract is mostly fair.\nTop 3 recommendations:\n- Cap the liability\n\n- Ask for a notice period\n1. Move disputes to India\n- Keep records'
LlmWithList ==
  <<84,104,105,115,32,99,111,110,116,114,97,99,116,32,105,115,32,109,111,115,116,108,121,32,102,97,105,114,46,10,84,111,112,32,51,32,114,101,99,111,109,109,101,110,100,97,116,105,111,110,115,58,10,45,32,67,97,112,32,116,104,101,32,108,105,97,98,105,108,105,116,121,10,10,45,32,65,115,107,32,102,111,114,32,97,32,110,111,116,105,99,101,32,112,101,114,105,111,100,10,49,46,32,77,111,118,101,32,100,105,115,112,117,116,101,115,32,116,111,32,73,110,100,105,97,10,45,32,75,101,101,112,32,114,101,99,111,114,100,115>>

\* A response of the LLM that names no recommendation.
\* 'The contract looks balanced. No action is needed.'
LlmPlain ==
  <<84,104,101,32,99,111,110,116,114,97,99,116,32,108,111,111,107,115,32,98,97,108,97,110,99,101,100,46,32,78,111,32,97,99,116,105,111,110,32,105,115,32,110,101,101,100,101,100,46>>

\* A value of GROQ_API_KEY.
\* 'gsk_1'
GroqKey ==
  <<103,115,107,95,49>>

\* The document texts of the requests.
AnalyzeDocuments ==
  {<<>>, ShortText, ShortLease, ShortHeading, LeaseParagraphs, RiskyEmployment,
   SingaporeParagraphs, NoticeContract}

\* What get_json gives: null, a body without text, a body without contract_id,
\* and complete bodies.
Requests ==
  {Null, [contract_id |-> "c-1"], [text |-> ShortText]}
  \cup {[contract_id |-> "c-1", text |-> d] : d \in AnalyzeDocuments}

\* GROQ_API_KEY and how the completion ends: no key or an empty one (no call
\* is made), and with a key a call that raises, returns a text, or returns a
\* message without content.
LlmEnvironments ==
  {[api_key |-> k, completion |-> Raised("APIConnectionError")] : k \in {None, <<>>}}
  \cup {[api_key |-> GroqKey, completion |-> c] :
          c \in {Raised("APIConnectionError"), Returned(LlmWithList),
                 Returned(LlmPlain), Returned(None)}}

\* The clauses of the employment template.
EmploymentStandard ==
  <<"The Employee agrees not to disclose any Confidential Information.",
    "Either party may terminate this agreement with 30 days notice.">>

\* The clauses of the lease template.
LeaseStandard == <<"The Tenant shall pay the rent on the first day of each month.">>

\* The files of data/templates: none, that of employment only, those of
\* employment and lease, a lease file that is no JSON, and an employment
\* file without the key 'clauses'.
TemplateFiles ==
  {[t \in {} |-> Null],
   [t \in {"employment"} |-> Returned([clauses |-> EmploymentStandard])],
   [t \in {"employment", "lease"} |->
      IF t = "lease" THEN Returned([clauses |-> LeaseStandard])
      ELSE Returned([clauses |-> EmploymentStandard])],
   [t \in {"lease"} |-> Raised("JSONDecodeError")],
   [t \in {"employment"} |-> Returned([name |-> "Employment"])]}

\* What os.makedirs and the write of the log line do.
LogOutcomes == {"written", "write fails", "makedirs raises"}

Environments ==
  {[api_key |-> llm.api_key, completion |-> llm.completion, templates |-> files,
    nlp |-> nlp, log |-> log] :
     llm \in LlmEnvironments, files \in TemplateFiles, nlp \in BOOLEAN, log \in LogOutcomes}

\* What EntityExtractor.extract finds in a clause: nothing without the spaCy
\* model; with it, nothing or a party.
Entities(nlp) ==
  IF nlp
  THEN {no_entities,
        [no_entities EXCEPT !.parties = <<[text |-> "Company", type |-> "ORG"]>>]}
  ELSE {no_entities}

\* doc1.similarity(doc2) of one clause for the standard clauses, in
\* hundredths: two near matches, two deviations, nothing alike.
SimilarityRows == {<<95, 95>>, <<60, 75>>, <<-10, 0>>}

InitAnalyze ==
  /\ environment \in Environments
  /\ data \in Requests
  /\ pc = "request"
  /\ standard_clauses = <<>>
  /\ explanations = NotCalled
  /\ audit_log = <<>>
  /\ response = NotCalled
  /\ NoDocument
  /\ NoClause
  /\ analyses = <<>>

\* Lines 26-32
Validate ==
  /\ pc = "request"
  /\ IF missing_fields(data)
     THEN /\ response' = missing_response
          /\ pc' = "done"
          /\ UNCHANGED document
     ELSE /\ document' = data.text
          /\ pc' = "classify"
          /\ UNCHANGED response
  /\ UNCHANGED <<environment, data, standard_clauses, explanations, audit_log>>
  /\ UNCHANGED <<type_result, confidence_result, extract_result>>
  /\ UNCHANGED <<clause_vars, analyses>>

\* Step 1, lines 35-36
ClassifyStage ==
  /\ pc = "classify"
  /\ type_result' = classify(document)
  /\ contract_type' = type_result'
  /\ pc' = "extract"
  /\ UNCHANGED <<environment, data, standard_clauses, explanations, audit_log, response>>
  /\ UNCHANGED <<document, confidence_result, extract_result>>
  /\ UNCHANGED <<clause_text, clauses, clause_result, role_result, contract_result, analyses>>

\* Step 2, lines 39-40; an exception goes to line 103.
ExtractStage ==
  /\ pc = "extract"
  /\ extract_result' = extract(document)
  /\ IF "raised" \in DOMAIN extract_result'
     THEN /\ response' = failed_response(extract_result'.raised)
          /\ pc' = "done"
          /\ UNCHANGED clauses
     ELSE /\ clauses' = extract_result'.returned
          /\ pc' = "template"
          /\ UNCHANGED response
  /\ UNCHANGED <<environment, data, standard_clauses, explanations, audit_log>>
  /\ UNCHANGED <<document, type_result, confidence_result>>
  /\ UNCHANGED <<clause_text, contract_type, clause_result, role_result, contract_result, analyses>>

\* Lines 46-59
LoadTemplate ==
  /\ pc = "template"
  /\ standard_clauses' = load_template(environment.templates, contract_type)
  /\ pc' = "enrich"
  /\ UNCHANGED <<environment, data, explanations, audit_log, response>>
  /\ UNCHANGED <<document_vars, clause_vars, analyses>>

\* Step 3, lines 61-71: every clause gets its entities and, when there are
\* standard clauses, its similarity fields; or spaCy raises on a clause.
EnrichStage ==
  /\ pc = "enrich"
  /\ \/ /\ \E entities \in Entities(environment.nlp) :
             \E rows \in [DOMAIN clauses -> SimilarityRows] :
               clauses' = list([i \in DOMAIN clauses |->
                                  enrich(clauses[i], environment.nlp, entities,
                                         standard_clauses, rows[i])])
        /\ pc' = "score"
        /\ UNCHANGED response
     \/ /\ environment.nlp
        /\ clauses # <<>>
        /\ response' = failed_response("ValueError")
        /\ pc' = "done"
        /\ UNCHANGED clauses
  /\ UNCHANGED <<environment, data, standard_clauses, explanations, audit_log>>
  /\ UNCHANGED <<clause_text, contract_type, clause_result, role_result, contract_result>>
  /\ UNCHANGED <<document_vars, analyses>>

\* Step 4, lines 74-75
ScoreStage ==
  /\ pc = "score"
  /\ \E outcome \in score_contract(contract_type, clauses) :
       /\ clauses' = outcome.clauses
       /\ contract_result' = outcome.result
  /\ pc' = "explain"
  /\ UNCHANGED <<environment, data, standard_clauses, explanations, audit_log, response>>
  /\ UNCHANGED <<clause_text, contract_type, clause_result, role_result>>
  /\ UNCHANGED <<document_vars, analyses>>

\* Step 5, lines 78-79; an exception goes to line 103.
ExplainStage ==
  /\ pc = "explain"
  /\ \E explained \in {explain_contract(environment.api_key, environment.completion,
                                        contract_type, clauses, contract_result)} :
       IF "raised" \in DOMAIN explained
       THEN /\ response' = failed_response(explained.raised)
            /\ pc' = "done"
            /\ UNCHANGED explanations
       ELSE /\ explanations' = explained.returned
            /\ pc' = "log"
            /\ UNCHANGED response
  /\ UNCHANGED <<environment, data, standard_clauses, audit_log>>
  /\ UNCHANGED <<document_vars, clause_vars, analyses>>

\* Lines 95-99: log_action; an exception of os.makedirs goes to line 103.
LogStage ==
  /\ pc = "log"
  /\ IF environment.log = "makedirs raises"
     THEN /\ response' = failed_response("OSError")
          /\ pc' = "done"
          /\ UNCHANGED audit_log
     ELSE /\ audit_log' = log_action(audit_log, data.contract_id, "analyze",
                                     [contract_type |-> contract_type,
                                      risk_score |-> contract_result.composite_score,
                                      clause_count |-> Len(clauses)],
                                     environment.log = "written")
          /\ pc' = "respond"
          /\ UNCHANGED response
  /\ UNCHANGED <<environment, data, standard_clauses, explanations>>
  /\ UNCHANGED <<document_vars, clause_vars, analyses>>

\* Line 101
Respond ==
  /\ pc = "respond"
  /\ response' = [status |-> 200,
                  body |-> analysis_result(data.contract_id, contract_type, clauses,
                                           contract_result, explanations)]
  /\ pc' = "done"
  /\ UNCHANGED <<environment, data, standard_clauses, explanations, audit_log>>
  /\ UNCHANGED <<document_vars, clause_vars, analyses>>

NextAnalyze ==
  \/ Validate
  \/ ClassifyStage
  \/ ExtractStage
  \/ LoadTemplate
  \/ EnrichStage
  \/ ScoreStage
  \/ ExplainStage
  \/ LogStage
  \/ Respond

SpecAnalyze == InitAnalyze /\ [][NextAnalyze]_vars

----------------------------------------------------------------------------
\* Two analyses of independent documents, each classifying, extracting,
\* scoring clause by clause and aggregating, their steps interleaved.

Analyses == {"first", "second"}

ParallelDocuments ==
  {ShortText, ShortHeading, LeaseParagraphs, RiskyEmployment, SingaporeParagraphs}

InitParallel ==
  /\ analyses \in [Analyses -> {[pc |-> "classify", text |-> d] : d \in ParallelDocuments}]
  /\ NoClause
  /\ NoDocument
  /\ NoHandler

\* classifier.classify(text)
ClassifyStep(p) ==
  /\ analyses[p].pc = "classify"
  /\ analyses' = own_locals(analyses, p,
                            [pc |-> "extract", text |-> analyses[p].text,
                             contract_type |-> classify(analyses[p].text)])
  /\ UNCHANGED <<clause_vars, document_vars, request_vars>>

\* clause_extractor.extract(text), and the entry of score_contract
ExtractStep(p) ==
  /\ analyses[p].pc = "extract"
  /\ \E extracted \in {extract(analyses[p].text)} :
       analyses' =
         own_locals(analyses, p,
                    IF "raised" \in DOMAIN extracted
                    THEN [pc |-> "failed", text |-> analyses[p].text,
                          contract_type |-> analyses[p].contract_type,
                          raised |-> extracted.raised]
                    ELSE [k \in {"pc", "text"}
                               \cup DOMAIN score_contract_entry(analyses[p].contract_type,
                                                                extracted.returned) |->
                            IF k = "pc" THEN "score"
                            ELSE IF k = "text" THEN analyses[p].text
                            ELSE score_contract_entry(analyses[p].contract_type,
                                                      extracted.returned)[k]])
  /\ UNCHANGED <<clause_vars, document_vars, request_vars>>

\* One iteration of the loop of score_contract.
ScoreClauseStep(p) ==
  /\ analyses[p].pc = "score"
  /\ analyses[p].clause <= Len(analyses[p].clauses)
  /\ analyses' = own_locals(analyses, p, score_contract_iteration(analyses[p]))
  /\ UNCHANGED <<clause_vars, document_vars, request_vars>>

\* The aggregation after the loop.
AggregateStep(p) ==
  /\ analyses[p].pc = "score"
  /\ analyses[p].clause > Len(analyses[p].clauses)
  /\ \E result \in score_contract_return(analyses[p]) :
       analyses' = own_locals(analyses, p,
                              [pc |-> "done", text |-> analyses[p].text,
                               contract_type |-> analyses[p].contract_type,
                               clauses |-> analyses[p].clauses,
                               risk_flags |-> analyses[p].risk_flags,
                               result |-> result])
  /\ UNCHANGED <<clause_vars, document_vars, request_vars>>

NextParallel ==
  \E p \in Analyses :
    \/ ClassifyStep(p)
    \/ ExtractStep(p)
    \/ ScoreClauseStep(p)
    \/ AggregateStep(p)

SpecParallel == InitParallel /\ [][NextParallel]_vars

----------------------------------------------------------------------------
\* Claims about score_clause, stated without the scorer's loop.

\* The weight table as the claims give it.
ClaimWeights ==
  [unilateral_termination |-> 30, uncapped_liability |-> 35, auto_renewal_lock_in |-> 20,
   penalty_high |-> 25, non_compete_excessive |-> 30, ip_transfer |-> 25,
   foreign_jurisdiction |-> 40, arbitration_cost |-> 35, ambiguous_terms |-> 10]

\* The keywords of pattern k that occur in the lower-cased text.
MatchedKeywords(k, text_lower) ==
  {j \in DOMAIN get_risk_patterns[k].keywords :
     contains(get_risk_patterns[k].keywords[j], text_lower)}

\* The patterns (table positions) with at least one keyword in the text.
FiredPatterns(text_lower) ==
  {k \in DOMAIN get_risk_patterns : MatchedKeywords(k, text_lower) # {}}

FiredNames(text_lower) == {get_risk_patterns[k].name : k \in FiredPatterns(text_lower)}

RECURSIVE SumWeights(_)
SumWeights(names) ==
  IF names = {} THEN 0
  ELSE LET x == CHOOSE x \in names : TRUE
       IN  ClaimWeights[x] + SumWeights(names \ {x})

\* min(100, sum of the weights of the fired patterns)
ExpectedScore(fired) ==
  LET s == SumWeights(fired) IN IF s > 100 THEN 100 ELSE s

\* One flag for every fired pattern of weight >= 25, in table order.
ExpectedFlags(fired) ==
  LET hit == SelectSeq(get_risk_patterns,
                       LAMBDA p : p.name \in fired /\ ClaimWeights[p.name] >= 25)
  IN  list([i \in 1..Len(hit) |-> [type |-> hit[i].name, description |-> hit[i].description]])

\* C1: score_clause returns a score in 0..100, and after score_contract every
\* clause's risk_score is in 0..100, whichever patterns fire.
ScoreInRange ==
  /\ clause_result # NotCalled => clause_result.score \in 0..100
  /\ contract_result # NotCalled =>
       \A i \in DOMAIN clauses : clauses[i].risk_score \in 0..100

\* C1 witness: both calls were made on a text whose fired weights exceed 100.
ScoreInRangeWitness ==
  /\ clause_result # NotCalled
  /\ contract_result # NotCalled
  /\ SumWeights(FiredNames(lower(clause_text))) > 100
  /\ clause_result.score = 100
  /\ clauses[1].risk_score = 100

\* C2: the score is min(100, sum of the weights of the patterns with a keyword
\* in the lower-cased text), each fired pattern counted once.
ScoreIsCappedWeightSum ==
  clause_result # NotCalled =>
    \A fired \in {FiredNames(lower(clause_text))} :
      clause_result.score = ExpectedScore(fired)

\* C2 witness: several patterns fired, one of them through two of its
\* keywords, and the sum stayed below the cap.
ScoreIsCappedWeightSumWitness ==
  /\ clause_result # NotCalled
  /\ \E text_lower \in {lower(clause_text)} :
       /\ Cardinality(FiredPatterns(text_lower)) >= 2
       /\ \E k \in FiredPatterns(text_lower) :
            Cardinality(MatchedKeywords(k, text_lower)) >= 2
       /\ clause_result.score = SumWeights(FiredNames(text_lower))
       /\ clause_result.score < 100

\* C3: the level is decided by the score alone (high from 70, medium from 40,
\* low below), and a text without any keyword gets 0, low and no flag.
LevelFollowsScore ==
  clause_result # NotCalled =>
    /\ clause_result.level = "high" <=> clause_result.score >= 70
    /\ clause_result.level = "medium" <=>
         (clause_result.score >= 40 /\ clause_result.score < 70)
    /\ clause_result.level = "low" <=> clause_result.score < 40
    /\ FiredPatterns(lower(clause_text)) = {} =>
         /\ clause_result.score = 0
         /\ clause_result.level = "low"
         /\ clause_result.flags = <<>>

\* C3 witness: a clause scoring exactly 70 is high.
LevelFollowsScoreWitness ==
  /\ clause_result # NotCalled
  /\ clause_result.score = 70
  /\ clause_result.level = "high"

\* C4: the flags are one {type, description} entry for every fired pattern of
\* weight >= 25, in table order, none for lighter patterns, also when the
\* score is capped.
FlagsAreHighImpactFired ==
  clause_result # NotCalled =>
    \A fired \in {FiredNames(lower(clause_text))} :
      clause_result.flags = ExpectedFlags(fired)

\* C4 witness: the sum exceeded 100, three patterns are flagged and a fired
\* pattern of weight 10 is not.
FlagsAreHighImpactFiredWitness ==
  /\ clause_result # NotCalled
  /\ \E fired \in {FiredNames(lower(clause_text))} :
       /\ SumWeights(fired) > 100
       /\ "ambiguous_terms" \in fired
  /\ clause_result.score = 100
  /\ Len(clause_result.flags) = 3
  /\ \A i \in DOMAIN clause_result.flags : clause_result.flags[i].type # "ambiguous_terms"

----------------------------------------------------------------------------
\* Claims about score_contract.

\* The fired pattern names of every clause of the list, in clause order.
FiredOfClauses == list([i \in DOMAIN clauses |-> FiredNames(lower(clauses[i].text))])

\* C5 as claimed: the flags of score_contract are the flags of every clause,
\* whatever its level, concatenated in clause order.
FlagsOfEveryClause ==
  contract_result # NotCalled =>
    \A fired \in {FiredOfClauses} :
      contract_result.flags =
        concat_range(list([i \in DOMAIN clauses |-> ExpectedFlags(fired[i])]),
                     1, Len(clauses))

\* C5 amended: the flags of score_contract are the flags of the clauses that
\* score 70 or more (level high), concatenated in clause order, duplicates kept.
FlagsOfHighClauses ==
  contract_result # NotCalled =>
    \A fired \in {FiredOfClauses} :
      contract_result.flags =
        concat_range(list([i \in DOMAIN clauses |->
                             IF ExpectedScore(fired[i]) >= 70
                             THEN ExpectedFlags(fired[i]) ELSE <<>>]),
                     1, Len(clauses))

\* C5 witness: two high clauses contribute the same flag twice and a clause
\* below 70 that fired a high-impact pattern contributes none.
FlagsOfHighClausesWitness ==
  /\ contract_result # NotCalled
  /\ \E a, b \in DOMAIN contract_result.flags :
       a < b /\ contract_result.flags[a] = contract_result.flags[b]
  /\ \E fired \in {FiredOfClauses} :
       \E k \in DOMAIN clauses :
         /\ ExpectedScore(fired[k]) < 70
         /\ ExpectedFlags(fired[k]) # <<>>
         /\ \A a \in DOMAIN contract_result.flags :
              contract_result.flags[a] # ExpectedFlags(fired[k])[1]

\* The sum of the clause scores as the weight table gives them.
RECURSIVE SumExpected(_, _)
SumExpected(fired, n) ==
  IF n = 0 THEN 0 ELSE SumExpected(fired, n - 1) + ExpectedScore(fired[n])

\* The dict the claim gives for the empty clause list.
EmptyResult ==
  [composite_score |-> 0, risk_level |-> "low", flags |-> <<>>,
   clause_count |-> 0, high_risk_clauses |-> 0]

\* C6 as claimed: composite_score (in hundredths) is exactly the mean of the
\* clause scores, lies in [0,100], and the empty list gives EmptyResult.
CompositeIsExactMean ==
  contract_result # NotCalled =>
    /\ clauses = <<>> => contract_result = EmptyResult
    /\ contract_result.composite_score \in 0..10000
    /\ \A fired \in {FiredOfClauses} :
         contract_result.composite_score * Len(clauses)
           = 100 * SumExpected(fired, Len(clauses))

\* C6 amended: composite_score is the mean of the clause scores rounded to two
\* decimals (no hundredth is nearer to the mean), lies in [0,100], and the
\* empty list gives EmptyResult.
CompositeIsRoundedMean ==
  contract_result # NotCalled =>
    /\ clauses = <<>> => contract_result = EmptyResult
    /\ contract_result.composite_score \in 0..10000
    /\ \A fired \in {FiredOfClauses} :
         LET off == 100 * SumExpected(fired, Len(clauses))
                      - contract_result.composite_score * Len(clauses)
         IN  2 * off <= Len(clauses) /\ -2 * off <= Len(clauses)

\* C6 witness: three clauses whose mean has no finite decimal expansion.
CompositeIsRoundedMeanWitness ==
  /\ contract_result # NotCalled
  /\ Len(clauses) = 3
  /\ \E fired \in {FiredOfClauses} : SumExpected(fired, 3) % 3 # 0

\* The level the 70/40 thresholds give to a score in hundredths.
LevelOfHundredths(c) ==
  IF c >= 7000 THEN "high" ELSE IF c >= 4000 THEN "medium" ELSE "low"

\* C7 as claimed: risk_level is the level the thresholds give to the returned
\* composite_score.
LevelMatchesReturnedScore ==
  contract_result # NotCalled =>
    contract_result.risk_level = LevelOfHundredths(contract_result.composite_score)

\* C8: clause_count is the length of the list and high_risk_clauses the number
\* of clauses that score 70 or more now, whatever level they carried; scores
\* 10, 80, 90 give 60.0, medium and 2.
CountsAfterScoring ==
  contract_result # NotCalled =>
    \A fired \in {FiredOfClauses} :
      /\ contract_result.clause_count = Len(clauses)
      /\ contract_result.high_risk_clauses =
           Cardinality({i \in DOMAIN clauses : ExpectedScore(fired[i]) >= 70})
      /\ \A i \in DOMAIN clauses :
           clauses[i].risk_level = "high" <=> ExpectedScore(fired[i]) >= 70
      /\ (/\ Len(clauses) = 3
          /\ {ExpectedScore(fired[i]) : i \in 1..3} = {10, 80, 90})
         => /\ contract_result.composite_score = 6000
            /\ contract_result.risk_level = "medium"
            /\ contract_result.high_risk_clauses = 2

\* C8 witness: three clauses scoring 10, 80 and 90 were scored.
CountsAfterScoringWitness ==
  /\ contract_result # NotCalled
  /\ Len(clauses) = 3
  /\ <<clauses[1].risk_score, clauses[2].risk_score, clauses[3].risk_score>> = <<10, 80, 90>>
  /\ contract_result.composite_score = 6000
  /\ contract_result.risk_level = "medium"
  /\ contract_result.high_risk_clauses = 2

\* C9 as claimed: a clause on which exactly unilateral_termination and
\* uncapped_liability fire scores 70 or more, is high, and is flagged with both.
TerminationAndLiabilityIsHigh ==
  (/\ clause_result # NotCalled
   /\ FiredNames(lower(clause_text)) = {"unilateral_termination", "uncapped_liability"})
  => /\ clause_result.score >= 70
     /\ clause_result.level = "high"
     /\ {"unilateral_termination", "uncapped_liability"}
          \subseteq {clause_result.flags[i].type : i \in DOMAIN clause_result.flags}

----------------------------------------------------------------------------
\* Claims about _classify_clause.

\* The role keyword lists in the order of precedence the claim gives.
RoleOrder == <<"prohibition", "obligation", "right", "condition", "definition">>

RoleKeywords(role) ==
  CASE role = "prohibition" -> prohibition_keywords
    [] role = "obligation" -> obligation_keywords
    [] role = "right" -> right_keywords
    [] role = "condition" -> condition_keywords
    [] role = "definition" -> definition_keywords

\* The roles with at least one keyword in the lower-cased text, as positions
\* of RoleOrder.
MatchedRoles(text_lower) ==
  {r \in DOMAIN RoleOrder :
     \E j \in DOMAIN RoleKeywords(RoleOrder[r]) :
       contains(RoleKeywords(RoleOrder[r])[j], text_lower)}

\* A keyword written in Devanagari (code points U+0900..U+097F).
IsHindi(keyword) == \E j \in DOMAIN keyword : keyword[j] \in 2304..2431

\* The matched keywords of a role that are written in Latin script.
MatchedEnglish(role, text_lower) ==
  {j \in DOMAIN RoleKeywords(role) :
     /\ ~IsHindi(RoleKeywords(role)[j])
     /\ contains(RoleKeywords(role)[j], text_lower)}

\* C10: _classify_clause returns the first role, in the order prohibition,
\* obligation, right, condition, definition, one of whose keywords (English or
\* Hindi) occurs in the lower-cased text, and general when none does.
RoleByPrecedence ==
  role_result # "pending" =>
    \A matched \in {MatchedRoles(lower(clause_text))} :
      /\ matched = {} => role_result = "general"
      /\ matched # {} =>
           role_result = RoleOrder[CHOOSE r \in matched : \A q \in matched : r <= q]
      /\ (1 \in matched /\ 2 \in matched) => role_result = "prohibition"

\* C10 witness: only Hindi keywords occur, one of prohibition and one of
\* obligation, and the role is prohibition.
RoleByPrecedenceWitness ==
  /\ role_result = "prohibition"
  /\ \E text_lower \in {lower(clause_text)} :
       /\ {1, 2} \subseteq MatchedRoles(text_lower)
       /\ \A r \in DOMAIN RoleOrder : MatchedEnglish(RoleOrder[r], text_lower) = {}

\* C14: when the patterns fired by one text are those fired by another plus
\* one more pattern of weight >= 25, its score is not smaller, and it is the
\* other score plus that weight whenever this sum does not exceed 100.
ScoreGrowsWithPattern ==
  contract_result # NotCalled =>
    \A fired \in {FiredOfClauses} :
      \A i, j \in DOMAIN clauses :
        \A p \in fired[j] \ fired[i] :
          (fired[j] = fired[i] \cup {p} /\ ClaimWeights[p] >= 25) =>
            /\ clauses[j].risk_score >= clauses[i].risk_score
            /\ (clauses[i].risk_score + ClaimWeights[p] <= 100 =>
                  clauses[j].risk_score = clauses[i].risk_score + ClaimWeights[p])

\* C14 witness: two clauses were scored, the second firing one more
\* high-impact pattern than the first and the sum passing 100, so that the
\* second score is the cap.
ScoreGrowsWithPatternWitness ==
  /\ contract_result # NotCalled
  /\ Len(clauses) = 2
  /\ \E fired \in {FiredOfClauses} :
       \E p \in fired[2] \ fired[1] :
         /\ fired[2] = fired[1] \cup {p}
         /\ ClaimWeights[p] >= 25
         /\ clauses[1].risk_score > 0
         /\ clauses[1].risk_score + ClaimWeights[p] > 100
         /\ clauses[2].risk_score = 100
         /\ clauses[1].risk_score < 100

----------------------------------------------------------------------------
\* Claims about ContractClassifier, stated without the classifier's loops.

\* The five types that have keywords.
FiveTypes == {"employment", "vendor", "lease", "partnership", "service"}

\* The keyword list of a type.
KeywordsOfType(t) ==
  type_keywords[CHOOSE i \in DOMAIN type_keywords : type_keywords[i].contract_type = t].keywords

\* The indices of text at which keyword occurs.
Starts(keyword, text) ==
  {p \in 1..(Len(text) - Len(keyword) + 1) : occurs_at(keyword, text, p)}

\* The number of occurrences of keyword in text: the largest number of
\* occurrences no two of which share a character.
Occurrences(keyword, text) ==
  LET disjoint(S) == \A p, q \in S : p < q => q - p >= Len(keyword)
      sizes == {Cardinality(S) : S \in {S \in SUBSET Starts(keyword, text) : disjoint(S)}}
  IN  CHOOSE n \in sizes : \A k \in sizes : k <= n

RECURSIVE SumOccurrences(_, _, _)
SumOccurrences(keywords, text, k) ==
  IF k = 0 THEN 0
  ELSE SumOccurrences(keywords, text, k - 1) + Occurrences(keywords[k], text)

\* Type -> total number of occurrences of the type's keywords in the text.
TypeTotals(text_lower) ==
  [t \in FiveTypes |-> SumOccurrences(KeywordsOfType(t), text_lower, Len(KeywordsOfType(t)))]

\* C11: classify returns one of the six labels: a type whose total number of
\* keyword occurrences in the lower-cased document is the largest when some
\* total is positive, and 'general' when every total is zero.
TypeHasLargestTotal ==
  type_result # "pending" =>
    \A totals \in {TypeTotals(lower(document))} :
      /\ type_result \in FiveTypes \cup {"general"}
      /\ (\A t \in FiveTypes : totals[t] = 0) => type_result = "general"
      /\ (\E t \in FiveTypes : totals[t] > 0) =>
           /\ type_result \in FiveTypes
           /\ \A t \in FiveTypes : totals[t] <= totals[type_result]

\* C11 witness: a document was classified in which a keyword occurs twice, the
\* winning type has two different keywords in the text, and another type has
\* a smaller positive total.
TypeHasLargestTotalWitness ==
  /\ type_result \in FiveTypes
  /\ \E text_lower \in {lower(document)} :
       /\ \E t \in FiveTypes : \E k \in DOMAIN KeywordsOfType(t) :
            Occurrences(KeywordsOfType(t)[k], text_lower) >= 2
       /\ \E j, k \in DOMAIN KeywordsOfType(type_result) :
            /\ j # k
            /\ Starts(KeywordsOfType(type_result)[j], text_lower) # {}
            /\ Starts(KeywordsOfType(type_result)[k], text_lower) # {}
       /\ \E t \in FiveTypes \ {type_result} :
            /\ TypeTotals(text_lower)[t] > 0
            /\ TypeTotals(text_lower)[t] < TypeTotals(text_lower)[type_result]

\* The sum of the integers f[x], x in S.
RECURSIVE SumOver(_, _)
SumOver(f, S) ==
  IF S = {} THEN 0
  ELSE LET x == CHOOSE x \in S : TRUE IN f[x] + SumOver(f, S \ {x})

\* The product of the integers f[x], x in S.
RECURSIVE ProductOver(_, _)
ProductOver(f, S) ==
  IF S = {} THEN 1
  ELSE LET x == CHOOSE x \in S : TRUE IN f[x] * ProductOver(f, S \ {x})

\* The fractions conf[t], t in FiveTypes, sum to 1: over the common
\* denominator (the product of the denominators) the numerators sum to it.
SumsToOne(conf) ==
  LET den == [t \in FiveTypes |-> conf[t].den]
      scaled == [t \in FiveTypes |-> conf[t].num * ProductOver(den, FiveTypes \ {t})]
  IN  SumOver(scaled, FiveTypes) = ProductOver(den, FiveTypes)

----------------------------------------------------------------------------
\* Claims about ClauseExtractor.extract.

\* The document as extract reads it, with '\r\n' turned into '\n'.
NormalizedDocument == replace_crlf(document, 1, Len(document))

\* extract returned a clause list.
ExtractReturned == "returned" \in DOMAIN extract_result

\* The indices of text at which piece occurs, from index `from` on.
OccurrencesFrom(piece, text, from) ==
  {p \in from..(Len(text) - Len(piece) + 1) : occurs_at(piece, text, p)}

\* C15: the text of every returned clause is longer than 20 characters and
\* neither begins nor ends with whitespace; nothing of 20 characters or less
\* is a clause.
ClauseTextsAreTrimmedAndLong ==
  ExtractReturned =>
    \A k \in DOMAIN extract_result.returned :
      \A text \in {extract_result.returned[k].text} :
        /\ Len(text) > 20
        /\ ~is_space(text[1])
        /\ ~is_space(text[Len(text)])

\* C15 witness: a clause of exactly 21 characters was returned, stripped of
\* the line break that followed it in the document, while the paragraph of
\* exactly 20 characters of the same document is in no clause.
ClauseTextsAreTrimmedAndLongWitness ==
  /\ ExtractReturned
  /\ \E k \in DOMAIN extract_result.returned :
       /\ extract_result.returned[k].text = TwentyOneChars
       /\ contains(TwentyOneChars \o <<10>>, document)
  /\ contains(TwentyChars, document)
  /\ \A k \in DOMAIN extract_result.returned :
       ~contains(TwentyChars, extract_result.returned[k].text)

\* The ids as the claim spells them.
ClaimIds ==
  <<"clause_1", "clause_2", "clause_3", "clause_4", "clause_5", "clause_6", "clause_7",
    "clause_8", "clause_9", "clause_10", "clause_11", "clause_12">>

\* The clause texts from the k-th on occur in text one after the other, the
\* first of them at index `from` or later.
RECURSIVE OccurInOrder(_, _, _, _)
OccurInOrder(cl, k, text, from) ==
  IF k > Len(cl) THEN TRUE
  ELSE \A found \in {OccurrencesFrom(cl[k].text, text, from)} :
         /\ found # {}
         /\ \A p \in {CHOOSE p \in found : \A q \in found : p <= q} :
              OccurInOrder(cl, k + 1, text, p + Len(cl[k].text))

\* C16: the k-th returned clause has the id "clause_k", and the clauses stand
\* in the order in which their texts occur in the document.
ClausesAreNumberedInOrder ==
  ExtractReturned =>
    /\ Len(extract_result.returned) <= Len(ClaimIds)
    /\ \A k \in DOMAIN extract_result.returned :
         extract_result.returned[k].id = ClaimIds[k]
    /\ OccurInOrder(extract_result.returned, 1, NormalizedDocument, 1)

\* C16 witness: two different clauses were returned, clause_1 and clause_2,
\* and the document holds, between their texts, the paragraph of 20
\* characters that was discarded.
ClausesAreNumberedInOrderWitness ==
  /\ ExtractReturned
  /\ Len(extract_result.returned) = 2
  /\ extract_result.returned[1].id = "clause_1"
  /\ extract_result.returned[2].id = "clause_2"
  /\ extract_result.returned[1].text # extract_result.returned[2].text
  /\ \A k \in 1..2 : ~contains(TwentyChars, extract_result.returned[k].text)
  /\ \E p \in OccurrencesFrom(TwentyChars, document, 1) :
       /\ OccurrencesFrom(extract_result.returned[1].text, document, 1) # {}
       /\ \A q \in OccurrencesFrom(extract_result.returned[1].text, document, 1) : q < p
       /\ \A q \in OccurrencesFrom(extract_result.returned[2].text, document, 1) : q > p

\* A clause as the two strategies build it, before id, type and word_count
\* are set.
Segment(clause) ==
  [header |-> clause.header, text |-> clause.text, full_text |-> clause.full_text]

Segments(cl) == list([k \in 1..Len(cl) |-> Segment(cl[k])])

\* C17: the returned clauses are those of the numbered sections when these are
\* at least 2, and those of the paragraphs otherwise; the two are not mixed.
ParagraphsIffFewerThanTwo ==
  ExtractReturned =>
    \A numbered \in {numbered_clauses(NormalizedDocument)} :
      /\ "returned" \in DOMAIN numbered
      /\ Len(numbered.returned) >= 2 =>
           Segments(extract_result.returned) = numbered.returned
      /\ Len(numbered.returned) < 2 =>
           Segments(extract_result.returned) = process_paragraphs(NormalizedDocument)

\* C17 witness: the numbered sections gave one clause, the paragraphs two, and
\* the two paragraph clauses were returned, neither under the heading that
\* the numbered clause had.
ParagraphsIffFewerThanTwoWitness ==
  /\ ExtractReturned
  /\ \E numbered \in {numbered_clauses(NormalizedDocument)} :
       /\ "returned" \in DOMAIN numbered
       /\ Len(numbered.returned) = 1
       /\ Len(extract_result.returned) = 2
       /\ \A k \in 1..2 :
            /\ extract_result.returned[k].header # numbered.returned[1].header
            /\ extract_result.returned[k].header = extract_result.returned[k].text

\* The document is a single unbroken block: the header pattern and the
\* blank-line pattern match nowhere in it.
SingleBlock(text) ==
  /\ Len(split_headers(text, 1, <<>>)) = 1
  /\ Len(split_paragraphs(text, 1, 1, <<>>)) = 1

\* The text cut to 50 characters, with the marker '...' when it was cut.
Truncated(text) ==
  IF Len(text) <= 50 THEN text
  ELSE [i \in 1..53 |-> IF i <= 50 THEN text[i] ELSE 46]

\* C18 as claimed: a single unbroken block of at least 20 characters gives
\* exactly one clause, whose header is its own text cut to 50 characters.
BlockOfTwentyIsOneClause ==
  extract_result # NotCalled =>
    \A text \in {NormalizedDocument} :
      (SingleBlock(text) /\ Len(strip(text)) >= 20) =>
        /\ ExtractReturned
        /\ Len(extract_result.returned) = 1
        /\ extract_result.returned[1].header = Truncated(extract_result.returned[1].text)

\* C18, amended: a single unbroken block gives exactly one clause when it is
\* longer than 20 characters after trimming, the clause's text being the
\* trimmed block and its header that text cut to 50 characters; a block of 20
\* characters or less gives no clause.
BlockOverTwentyIsOneClause ==
  extract_result # NotCalled =>
    \A text \in {NormalizedDocument} :
      SingleBlock(text) =>
        /\ ExtractReturned
        /\ Len(strip(text)) > 20 =>
             /\ Len(extract_result.returned) = 1
             /\ extract_result.returned[1].text = strip(text)
             /\ extract_result.returned[1].header = Truncated(strip(text))
        /\ Len(strip(text)) <= 20 => extract_result.returned = <<>>

\* C18 witness: a single block of two lines, longer than 50 characters, was
\* extracted; its header is its first 50 characters and the marker.
BlockOverTwentyIsOneClauseWitness ==
  /\ extract_result # NotCalled
  /\ SingleBlock(NormalizedDocument)
  /\ Len(document) > 50
  /\ contains(<<10>>, strip(document))
  /\ ExtractReturned
  /\ Len(extract_result.returned) = 1
  /\ Len(extract_result.returned[1].header) = 53
  /\ SubSeq(extract_result.returned[1].header, 51, 53) = <<46, 46, 46>>
  /\ SubSeq(extract_result.returned[1].header, 1, 50) = SubSeq(document, 1, 50)

\* C19: under the numbered sections, the text before the first heading is a
\* clause under "General" and the text after each heading is a clause under
\* that heading, whenever the text is longer than 20 characters after
\* trimming, whatever it begins with.  (The split yields the text before
\* the first heading, then for each heading the heading, its last dotted
\* number and the text after it.)
BodiesStandUnderTheirHeading ==
  extract_result # NotCalled =>
    \A sections \in {split_headers(NormalizedDocument, 1, <<>>)} :
      \A numbered \in {numbered_clauses(NormalizedDocument)} :
        (Len(sections) > 2 /\ "returned" \in DOMAIN numbered) =>
          /\ Len(strip(sections[1])) > 20 =>
               \E k \in DOMAIN numbered.returned :
                 /\ numbered.returned[k].text = strip(sections[1])
                 /\ numbered.returned[k].header = General
          /\ \A h \in 1..((Len(sections) - 1) \div 3) :
               Len(strip(sections[3 * h + 1])) > 20 =>
                 \E k \in DOMAIN numbered.returned :
                   /\ numbered.returned[k].text = strip(sections[3 * h + 1])
                   /\ numbered.returned[k].header = strip(sections[3 * h - 1])

\* C20: extract never raises; it returns a clause list for every document.
ExtractNeverRaises ==
  extract_result # NotCalled => ExtractReturned

----------------------------------------------------------------------------
\* High clauses and their flags.

\* Sum of the weights of a set of patterns (table positions).
RECURSIVE WeightOf(_)
WeightOf(S) ==
  IF S = {} THEN 0
  ELSE LET k == CHOOSE k \in S : TRUE
       IN  get_risk_patterns[k].weight + WeightOf(S \ {k})

\* Of every set of patterns of the table: when its capped weight reaches the
\* high threshold, it has at least two patterns, one of them of flag weight.
HeavySetsHoldAFlag ==
  \A S \in SUBSET DOMAIN get_risk_patterns :
    cap_score(WeightOf(S)) >= HIGH_RISK_THRESHOLD =>
      /\ Cardinality(S) >= 2
      /\ \E k \in S : get_risk_patterns[k].weight >= FLAG_WEIGHT

\* C27: whenever score_clause returns level 'high' its flags list is not
\* empty and at least two patterns fired: no set of patterns of the weight
\* table reaches 70 without a pattern of weight >= 25, and no single pattern
\* reaches 70.
HighClauseIsFlagged ==
  /\ HeavySetsHoldAFlag
  /\ (clause_result # NotCalled /\ clause_result.level = "high") =>
       /\ clause_result.flags # <<>>
       /\ Cardinality(FiredPatterns(lower(clause_text))) >= 2

\* C27 witness: a clause came out 'high' on exactly two fired patterns, both
\* flagged.
HighClauseIsFlaggedWitness ==
  /\ clause_result # NotCalled
  /\ clause_result.level = "high"
  /\ Cardinality(FiredPatterns(lower(clause_text))) = 2
  /\ Len(clause_result.flags) = 2

----------------------------------------------------------------------------
\* Ties between contract types.

\* The fixed order of the types.
TypeOrder == <<"employment", "vendor", "lease", "partnership", "service">>

\* The types that carry the largest total.
TiedTypes(totals) ==
  {t \in FiveTypes : \A u \in FiveTypes : totals[u] <= totals[t]}

\* The first index of the text at which a keyword of the type occurs (0 when
\* none does).
FirstKeywordAt(t, text_lower) ==
  LET starts == UNION {Starts(KeywordsOfType(t)[k], text_lower) : k \in DOMAIN KeywordsOfType(t)}
  IN  IF starts = {} THEN 0 ELSE CHOOSE p \in starts : \A q \in starts : p <= q

\* C29: when some total is positive, classify returns the type with the
\* largest total that comes first in the order employment, vendor, lease,
\* partnership, service, wherever in the text the keywords of the tied types
\* stand.
FirstTiedTypeWins ==
  type_result # "pending" =>
    \A totals \in {TypeTotals(lower(document))} :
      (\E t \in FiveTypes : totals[t] > 0) =>
        \E i \in DOMAIN TypeOrder :
          /\ type_result = TypeOrder[i]
          /\ TypeOrder[i] \in TiedTypes(totals)
          /\ \A j \in 1..(i - 1) : TypeOrder[j] \notin TiedTypes(totals)

\* C29 witness: two types tie with a positive total, the first in the order
\* was returned, and a keyword of the other tied type stands earlier in
\* the text than every keyword of the returned one.
FirstTiedTypeWinsWitness ==
  /\ type_result \in FiveTypes
  /\ \E text_lower \in {lower(document)} :
       \E totals \in {TypeTotals(text_lower)} :
         /\ totals[type_result] > 0
         /\ \E t \in TiedTypes(totals) \ {type_result} :
              FirstKeywordAt(t, text_lower) < FirstKeywordAt(type_result, text_lower)

----------------------------------------------------------------------------
\* Claims about analyze_contract and Explainer.explain_contract.

\* analyze_contract is past its call of explain_contract.
ExplainWasCalled ==
  \/ pc \in {"log", "respond"}
  \/ pc = "done" /\ contract_result # NotCalled

\* No LLM client is configured, or the completion raises.
LlmUnavailable ==
  \/ environment.api_key \in {None, <<>>}
  \/ "raised" \in DOMAIN environment.completion

\* The summary written without the LLM, from the type, the clause list and
\* the result of score_contract.
TemplatedSummary ==
  "This " \o contract_type \o " contract contains " \o ToString(Len(clauses))
    \o " clauses with an overall risk score of " \o format_score(contract_result)
    \o "/100 (" \o contract_result.risk_level \o " risk).\n\n"
    \o ToString(contract_result.high_risk_clauses)
    \o " clause(s) require careful attention. Review all high-risk clauses with legal counsel before signing."

\* C22: explain_contract does not fail, and when no LLM client is configured
\* or the LLM call raises it returns the templated summary, built from
\* contract_type, the number of clauses, composite_score, risk_level and
\* high_risk_clauses, with a list of exactly 3 recommendations.
FallbackWithoutLlm ==
  ExplainWasCalled =>
    /\ explanations # NotCalled
    /\ DOMAIN explanations = {"summary", "recommendations"}
    /\ LlmUnavailable =>
         /\ explanations.summary = TemplatedSummary
         /\ Len(explanations.recommendations) = 3

\* C22 witness: a client is configured, the completion raised, and the
\* summary was written for a contract with two high-risk clauses out of three.
FallbackWithoutLlmWitness ==
  /\ ExplainWasCalled
  /\ environment.api_key = GroqKey
  /\ "raised" \in DOMAIN environment.completion
  /\ explanations # NotCalled
  /\ Len(clauses) = 3
  /\ contract_result.high_risk_clauses = 2
  /\ contract_result.composite_score = 6000

\* The stages of analyze_contract that have completed, as the results they
\* left behind show.
Classified == type_result # "pending"

Extracted == extract_result # NotCalled /\ "returned" \in DOMAIN extract_result

Enriched == Extracted /\ \A i \in DOMAIN clauses : "entities" \in DOMAIN clauses[i]

Scored == contract_result # NotCalled

Explained == explanations # NotCalled

\* C28: the stages run in the order classification, extraction, enrichment,
\* scoring, explanation, audit logging, each only after the ones before it
\* completed; at most one 'analyze' entry is written, and only after all
\* other stages; a request without contract_id or text gets 400 with no stage
\* run and no entry; a request in which a stage raises gets 500 with no entry;
\* 200 is answered only after every stage.
StagesRunInOrder ==
  /\ Classified => ~missing_fields(data)
  /\ extract_result # NotCalled => Classified
  /\ Scored => Enriched
  /\ Explained => Scored
  /\ Len(audit_log) <= 1
  /\ audit_log # <<>> =>
       /\ Explained
       /\ audit_log[1].action = "analyze"
       /\ audit_log[1].contract_id = data.contract_id
  /\ (pc = "done" /\ missing_fields(data)) => response.status = 400
  /\ (response # NotCalled /\ response.status = 400) =>
       /\ missing_fields(data)
       /\ ~Classified /\ extract_result = NotCalled /\ ~Scored /\ ~Explained
       /\ audit_log = <<>>
  /\ (response # NotCalled /\ response.status = 500) => audit_log = <<>>
  /\ (response # NotCalled /\ response.status = 200) =>
       /\ Classified /\ Enriched /\ Scored /\ Explained
       /\ environment.log = "written" => Len(audit_log) = 1

\* C28 witness: a request with three clauses was answered 200 and its
\* 'analyze' entry is in the log.
StagesRunInOrderWitness ==
  /\ response # NotCalled
  /\ response.status = 200
  /\ Len(audit_log) = 1
  /\ audit_log[1].metadata.clause_count = 3
  /\ Len(response.body.clauses) = 3

\* The fields the similarity comparison sets on a clause.
SimilarityFields == {"similarity_score", "is_standard", "deviation_flag", "suggested_standard"}

\* analyze_contract is past its loop over the clauses.
EnrichWasDone ==
  \/ pc \in {"score", "explain", "log", "respond"}
  \/ pc = "done" /\ Scored

\* C23: loading the template never ends the analysis, and when data/templates
\* has no template for the document's contract type no clause carries a
\* similarity field: the fields are there only when the template of that
\* type was loaded.
NoTemplateNoSimilarity ==
  /\ pc = "enrich" => response = NotCalled
  /\ EnrichWasDone =>
       \A i \in DOMAIN clauses :
         DOMAIN clauses[i] \cap SimilarityFields # {} =>
           /\ contract_type \in DOMAIN environment.templates
           /\ "returned" \in DOMAIN environment.templates[contract_type]

\* C21: for a document text that is empty or at most 20 characters long after
\* trimming, classify, extract and score_contract all complete: extract
\* returns the empty list, classify a label ('general' when no keyword of a
\* type occurs), score_contract the composite score 0 and the level 'low'.
ShortDocumentIsNoError ==
  (pc = "done" /\ ~missing_fields(data) /\ Len(strip(document)) <= 20) =>
    /\ extract_result = Returned(<<>>)
    /\ type_result \in FiveTypes \cup {"general"}
    /\ (\A t \in FiveTypes : TypeTotals(lower(document))[t] = 0) => type_result = "general"
    /\ Scored
    /\ contract_result.composite_score = 0
    /\ contract_result.risk_level = "low"

\* C25: the call of score_contract leaves the clause list as long as it was
\* and in the same order, and leaves every field of every clause as it was
\* (id, header, text, full_text, word_count, type and the enrichments); all
\* it does to a clause is set risk_score and risk_level.
ScoreLeavesClausesAlone ==
  [][(contract_result = NotCalled /\ contract_result' # NotCalled) =>
       /\ Len(clauses') = Len(clauses)
       /\ \A i \in DOMAIN clauses :
            /\ DOMAIN clauses'[i] = DOMAIN clauses[i] \cup {"risk_score", "risk_level"}
            /\ \A k \in DOMAIN clauses[i] \ {"risk_score", "risk_level"} :
                 clauses'[i][k] = clauses[i][k]]_vars

\* C25 witness: three clauses with ids, headers, roles, entities and
\* similarity fields were scored, two of them 'high'.
ScoreLeavesClausesAloneWitness ==
  /\ Scored
  /\ Len(clauses) = 3
  /\ \A i \in DOMAIN clauses :
       {"id", "header", "text", "full_text", "word_count", "type", "entities",
        "similarity_score", "risk_score", "risk_level"} \subseteq DOMAIN clauses[i]
  /\ clauses[1].id = "clause_1" /\ clauses[3].id = "clause_3"
  /\ clauses[2].type # clauses[1].type
  /\ contract_result.high_risk_clauses = 2

----------------------------------------------------------------------------
\* Scores and the arguments that are not text.

\* Another run on the same texts: another contract type, and every clause
\* given the role of the smallest or of the largest weight.
OtherRuns ==
  {[contract_type |-> "lease", type |-> "definition"],
   [contract_type |-> "general", type |-> "prohibition"]}

\* The clause list of another run: the texts of this one, fresh from the
\* extractor, with the role the run gives them.
Retyped(cl, role) == list([i \in DOMAIN cl |-> [text |-> cl[i].text, type |-> role]])

\* C24: what score_contract returns, and the score and level it sets on each
\* clause, depend on the clause texts only: a run on the same texts with
\* another contract_type and other clause types, on clauses never scored
\* before, gives the same result, scores and levels.
ScoreDependsOnTextOnly ==
  contract_result # NotCalled =>
    \A run \in OtherRuns :
      \A outcomes \in {score_contract(run.contract_type, Retyped(clauses, run.type))} :
        /\ contract_result \in {o.result : o \in outcomes}
        /\ \A o \in outcomes :
             \A i \in DOMAIN clauses :
               /\ o.clauses[i].risk_score = clauses[i].risk_score
               /\ o.clauses[i].risk_level = clauses[i].risk_level

\* C24 witness: an employment contract of three clauses of different roles
\* was scored, one clause high, with flags.
ScoreDependsOnTextOnlyWitness ==
  /\ contract_result # NotCalled
  /\ contract_type = "employment"
  /\ Len(clauses) = 3
  /\ Cardinality({clauses[i].type : i \in DOMAIN clauses}) >= 2
  /\ contract_result.high_risk_clauses = 1
  /\ contract_result.flags # <<>>
  /\ contract_result.composite_score > 0

----------------------------------------------------------------------------
\* Independent analyses.

\* What an analysis of the text gives when it runs alone: the contract type
\* and how extract ends, and after a successful extract the clause lists and
\* results score_contract can leave.
Alone(text) ==
  [contract_type |-> classify(text),
   extracted |-> extract(text),
   outcomes |-> IF "returned" \in DOMAIN extract(text)
                THEN score_contract(classify(text), extract(text).returned)
                ELSE {}]

\* C26: each of two analyses whose steps are interleaved ends as it ends when
\* it runs alone: it fails when its own extract raises, and otherwise returns
\* the result and leaves the clause list of a run alone, the flags in the
\* order of its own clauses.
AnalysesDoNotInterfere ==
  \A p \in DOMAIN analyses :
    analyses[p].pc \in {"failed", "done"} =>
      \A alone \in {Alone(analyses[p].text)} :
        /\ analyses[p].contract_type = alone.contract_type
        /\ analyses[p].pc = "failed" <=> "raised" \in DOMAIN alone.extracted
        /\ analyses[p].pc = "done" =>
             \E o \in alone.outcomes :
               /\ analyses[p].result = o.result
               /\ analyses[p].clauses = o.clauses

\* C26 witness: two analyses of different documents are both done, each with
\* flags of its own high clauses.
AnalysesDoNotInterfereWitness ==
  /\ DOMAIN analyses = Analyses
  /\ \A p \in Analyses :
       /\ analyses[p].pc = "done"
       /\ analyses[p].result.flags # <<>>
  /\ analyses["first"].text # analyses["second"].text
  /\ analyses["first"].result.flags # analyses["second"].result.flags

====
